---- MODULE Spec2Model ----
(***************************************************************************)
(* A model of t2z: the ZIP-317 fee calculator, the transparent-input       *)
(* codec, the PCZT role pipeline (propose, prove, verify, sighash, sign,   *)
(* combine, finalize) and the C boundary that wraps it in opaque handles.  *)
(*                                                                         *)
(* The specifications share the variables:                                 *)
(*   SpecFee       calculate_fee applied to bounded counts                 *)
(*   SpecCodec     serialize/parse of transparent inputs over buffers      *)
(*   Spec          the role pipeline on owned PCZT values                  *)
(*   SpecFfi       the boundary layer: handles, ownership, result codes    *)
(*   SpecStages    prove, append_signature, combine on lists of PCZTs      *)
(*   SpecLastError the thread-local last error, on two threads             *)
(*   SpecProvers   concurrent prove_transaction calls and the OnceLock     *)
(*   SpecVerify    verify_before_signing applied to bounded PCZTs          *)
(* Each leaves the other components' variables at their idle values.       *)
(***************************************************************************)
EXTENDS Integers, Sequences, FiniteSets, TLC

VARIABLES
    \* ---- fee calculator (lib.rs calculate_fee) ----
    num_transparent_inputs,   \* argument
    num_transparent_outputs,  \* argument
    num_orchard_outputs,      \* argument
    fee,                      \* the returned fee (0 before the call)
    fee_pc,                   \* "call" before calculate_fee has run, "done" after
    \* ---- transparent-input codec (types.rs) ----
    c_inputs,                 \* the TransparentInput list handed to serialize
    c_data,                   \* the byte buffer handed to parse
    c_mutated,                \* whether c_data was altered after serialize
    c_result,                 \* what parse returned
    c_out,                    \* the re-serialized bytes
    c_pc,                     \* position of the codec scenario
    \* ---- Rust API (lib.rs) ----
    p_pc,                     \* "start" before propose_transaction, "built" after
    p_inputs,                 \* the inputs buffer handed to propose_transaction
    p_request,                \* the TransactionRequest
    p_change,                 \* the change address (NoAddress for None)
    p_owned,                  \* the PCZT value the caller owns (none or one)
    p_signed,                 \* the inputs append_signature returned Ok for, in call order
    p_built,                  \* the PCZT as propose_transaction returned it
    p_last,                   \* the last call and its result
    checkpoint,               \* bytes kept from serialize_pczt
    checkpoint_signed,        \* p_signed of the PCZT the checkpoint was taken of
    \* ---- C boundary (ffi.rs) ----
    f_pc,                     \* "run" while boundary functions are called
    h_state,                  \* per handle: "unallocated", "live" or "freed"
    h_pczt,                   \* per handle: the boxed PCZT while it is live
    last_error,               \* per thread: LAST_ERROR
    f_last,                   \* the last boundary call and its result code
    f_bytes,                  \* bytes kept from pczt_serialize
    \* ---- stages after the Builder, applied to lists of PCZTs (lib.rs) ----
    s_inputs,                 \* the input list that was given to propose_transaction
    s_list,                   \* the PCZTs at hand, all descendants of that build or strangers
    s_last,                   \* the stage called and what it returned
    s_pc,                     \* "call" before the stage has run, "done" after
    \* ---- concurrent prove_transaction calls (lib.rs ORCHARD_PROVING_KEY) ----
    o_lock,                   \* the OnceLock: its state and the key it holds (0: none)
    o_builds,                 \* how many times ProvingKey::build has been started
    o_pc,                     \* per caller: its position inside prove_transaction
    o_key,                    \* per caller: the proving key its call holds (0: none)
    o_owned,                  \* per caller: the PCZT value it owns, if any
    o_call,                   \* per caller: the PCZT its call was given and the result
    \* ---- verify_before_signing applied to bounded PCZTs (lib.rs) ----
    v_pczt,                   \* the PCZT handed to verify_before_signing
    v_request,                \* the TransactionRequest
    v_change,                 \* expected_change
    v_result,                 \* what the call returned
    v_pc,                     \* "call" before verify_before_signing has run, "done" after
    \* ---- the PCZT wrappers of the TypeScript binding (typescript/src/lib.rs) ----
    w_state,                  \* per wrapper: "none", "alive" or "dropped"
    w_handle,                 \* per wrapper: the native handle it holds, or NULL
    n_state,                  \* per native handle: "unallocated", "live" or "freed"
    n_taken,                  \* per native handle: how often a consuming native call or
                              \* pczt_free received it (2: more than once)
    w_last                    \* the last call of the binding

codecVars == <<c_inputs, c_data, c_mutated, c_result, c_out, c_pc>>

feeVars == <<num_transparent_inputs, num_transparent_outputs, num_orchard_outputs, fee, fee_pc>>

coreVars == <<p_pc, p_inputs, p_request, p_change, p_owned, p_signed, p_built, p_last,
              checkpoint, checkpoint_signed>>

ffiVars == <<f_pc, h_state, h_pczt, last_error, f_last, f_bytes>>

stageVars == <<s_inputs, s_list, s_last, s_pc>>

onceVars == <<o_lock, o_builds, o_pc, o_key, o_owned, o_call>>

verifyVars == <<v_pczt, v_request, v_change, v_result, v_pc>>

wrapperVars == <<w_state, w_handle, n_state, n_taken, w_last>>

vars == <<feeVars, codecVars, coreVars, ffiVars, stageVars, onceVars, verifyVars,
          wrapperVars>>

\* what each component's actions leave unchanged
nonFeeVars == <<codecVars, coreVars, ffiVars, stageVars, onceVars, verifyVars,
    wrapperVars>>

nonCodecVars == <<feeVars, coreVars, ffiVars, stageVars, onceVars, verifyVars,
    wrapperVars>>

nonCoreVars == <<feeVars, codecVars, ffiVars, stageVars, onceVars, verifyVars,
    wrapperVars>>

nonFfiVars == <<feeVars, codecVars, coreVars, stageVars, onceVars, verifyVars,
    wrapperVars>>

nonStageVars == <<feeVars, codecVars, coreVars, ffiVars, onceVars, verifyVars,
    wrapperVars>>

nonOnceVars == <<feeVars, codecVars, coreVars, ffiVars, stageVars, verifyVars,
    wrapperVars>>

nonVerifyVars == <<feeVars, codecVars, coreVars, ffiVars, stageVars, onceVars,
    wrapperVars>>

nonWrapperVars == <<feeVars, codecVars, coreVars, ffiVars, stageVars, onceVars, verifyVars>>

(***************************************************************************)
(* Bounds of the model.                                                    *)
(***************************************************************************)
\* largest count handed to calculate_fee
MaxCount == 6

\* longest TransparentInput list handed to the codec
MaxCodecInputs == 2

\* most PCZT handles the boundary hands out in a run
MaxHandles == 3

(***************************************************************************)
(* Helpers.                                                                *)
(***************************************************************************)
Max(a, b) == IF a >= b THEN a ELSE b

(***************************************************************************)
(* Fee calculator: lib.rs:22-79.                                           *)
(***************************************************************************)
ZIP317_MARGINAL_FEE == 5000

ZIP317_GRACE_ACTIONS == 2

\* a calculate_fee whose padding forgets the "+ 1": rounds odd counts down
calculate_fee_round_down(n_in, n_out, n_orchard) ==
    LET logical_actions ==
            IF n_orchard > 0
            THEN Max(n_in, n_out) + (n_orchard \div 2) * 2
            ELSE Max(n_in, n_out)
    IN  ZIP317_MARGINAL_FEE * Max(ZIP317_GRACE_ACTIONS, logical_actions)

\* a calculate_fee that pads the other parity: odd counts stay, even counts grow
calculate_fee_pad_even(n_in, n_out, n_orchard) ==
    LET logical_actions ==
            IF n_orchard > 0
            THEN Max(n_in, n_out) + (n_orchard \div 2) * 2 + 1
            ELSE Max(n_in, n_out)
    IN  ZIP317_MARGINAL_FEE * Max(ZIP317_GRACE_ACTIONS, logical_actions)

calculate_fee(n_in, n_out, n_orchard) ==
    LET logical_actions ==
            IF n_orchard > 0
            THEN LET orchard_actions == ((n_orchard + 1) \div 2) * 2
                     transparent_actions == Max(n_in, n_out)
                 IN  transparent_actions + orchard_actions
            ELSE Max(n_in, n_out)
    IN  ZIP317_MARGINAL_FEE * Max(ZIP317_GRACE_ACTIONS, logical_actions)

(***************************************************************************)
(* Bytes and fixed-width integers.                                         *)
(***************************************************************************)
Zeros(n) == [i \in 1..n |-> 0]

\* u16::to_le_bytes (types.rs:157, 174)
u16_to_le_bytes(v) == <<v % 256, (v \div 256) % 256>>

\* u32 written most significant byte first
u32_to_be_bytes(v) ==
    <<(v \div 16777216) % 256, (v \div 65536) % 256, (v \div 256) % 256, v % 256>>

\* u32::to_le_bytes (types.rs:167)
u32_to_le_bytes(v) ==
    <<v % 256, (v \div 256) % 256, (v \div 65536) % 256, (v \div 16777216) % 256>>

\* u64::to_le_bytes (types.rs:170); the model's amounts stay below 2^31
u64_to_le_bytes(v) ==
    <<v % 256, (v \div 256) % 256, (v \div 65536) % 256, (v \div 16777216) % 256,
      0, 0, 0, 0>>

\* two bytes read most significant byte first
u16_from_be_bytes(b0, b1) == b0 * 256 + b1

\* u16::from_le_bytes (types.rs:80, 126)
u16_from_le_bytes(b0, b1) == b0 + 256 * b1

\* u32::from_le_bytes (types.rs:109)
u32_from_le_bytes(b) == b[1] + 256 * (b[2] + 256 * (b[3] + 256 * b[4]))

\* u64::from_le_bytes (types.rs:116-119); every amount of the model is below
\* 2^31, so the high bytes of every amount read are zero
u64_from_le_bytes(b) ==
    b[1] + 256 * (b[2] + 256 * (b[3] + 256 * (b[4] + 256 * (b[5] + 256 * (b[6]
         + 256 * (b[7] + 256 * b[8]))))))

(***************************************************************************)
(* secp256k1 public keys: a point is its x coordinate and the parity of y. *)
(* The model's keys have x below 256; of those, CurveX are the x that lie  *)
(* on the curve y^2 = x^3 + 7 (5 and 7 do not).                            *)
(***************************************************************************)
CurveX == {1, 2, 3, 4, 6, 8}

PUBKEY_LEN == 33

TXID_LEN == 32

\* PublicKey::serialize (types.rs:161): the 33-byte compressed form
pubkey_serialize(k) == <<IF k.odd THEN 3 ELSE 2>> \o Zeros(31) \o <<k.x>>

\* PublicKey::from_slice (types.rs:92) on 33 bytes
pubkey_valid(b) ==
    /\ b[1] \in {2, 3}
    /\ SubSeq(b, 2, 32) = Zeros(31)
    /\ b[33] \in CurveX

pubkey_from_slice(b) == [odd |-> b[1] = 3, x |-> b[33]]

(***************************************************************************)
(* Input codec: types.rs:71-181.                                           *)
(***************************************************************************)
ParseOk(inputs, offset) ==
    [ok |-> TRUE, inputs |-> inputs, offset |-> offset, field |-> "none", index |-> 0]

\* Err(format!("Input {} truncated at <field>", i)) and the other messages
ParseErr(field, i) ==
    [ok |-> FALSE, inputs |-> <<>>, offset |-> 0, field |-> field, index |-> i]

\* the body of the loop at types.rs:84-143, from input i at `offset`
RECURSIVE parse_loop(_, _, _, _, _)
parse_loop(data, num_inputs, i, offset, inputs) ==
    IF i >= num_inputs THEN ParseOk(inputs, offset)
    ELSE IF offset + PUBKEY_LEN > Len(data) THEN ParseErr("pubkey", i)
    ELSE IF ~pubkey_valid(SubSeq(data, offset + 1, offset + PUBKEY_LEN))
         THEN ParseErr("invalid pubkey", i)
    ELSE LET pubkey == pubkey_from_slice(SubSeq(data, offset + 1, offset + PUBKEY_LEN))
             o1 == offset + PUBKEY_LEN
         IN
         IF o1 + TXID_LEN > Len(data) THEN ParseErr("txid", i)
         ELSE LET txid == SubSeq(data, o1 + 1, o1 + TXID_LEN)
                  o2 == o1 + TXID_LEN
              IN
              IF o2 + 4 > Len(data) THEN ParseErr("vout", i)
              ELSE LET vout == u32_from_le_bytes(SubSeq(data, o2 + 1, o2 + 4))
                       o3 == o2 + 4
                   IN
                   IF o3 + 8 > Len(data) THEN ParseErr("amount", i)
                   ELSE LET amount == u64_from_le_bytes(SubSeq(data, o3 + 1, o3 + 8))
                            o4 == o3 + 8
                        IN
                        IF o4 + 2 > Len(data) THEN ParseErr("script length", i)
                        ELSE LET script_len == u16_from_le_bytes(data[o4 + 1], data[o4 + 2])
                                 o5 == o4 + 2
                             IN
                             IF o5 + script_len > Len(data) THEN ParseErr("script data", i)
                             ELSE parse_loop(data, num_inputs, i + 1, o5 + script_len,
                                     Append(inputs,
                                        [pubkey |-> pubkey, txid |-> txid, vout |-> vout,
                                         amount |-> amount,
                                         script_pubkey |-> SubSeq(data, o5 + 1, o5 + script_len)]))

\* the text of the error parse returns for a field and an input: the format
\* string and the input index it is given (types.rs:77, 87, 93, 98, 107, 114,
\* 124, 131); the pubkey error also carries the text of the secp256k1 error
parse_error_message(field, i) ==
    IF field = "header"
    THEN [format |-> "Input data too short for header", args |-> <<>>]
    ELSE IF field = "invalid pubkey"
    THEN [format |-> "Invalid pubkey for input {}: {}", args |-> <<i>>]
    ELSE [format |-> "Input {} truncated at " \o field, args |-> <<i>>]

\* a parse without the empty-buffer case of types.rs:72-74
parse_transparent_inputs_no_empty_case(data) ==
    IF Len(data) < 2 THEN ParseErr("header", 0)
    ELSE parse_loop(data, u16_from_le_bytes(data[1], data[2]), 0, 2, <<>>)

\* parse_transparent_inputs (types.rs:71-146)
parse_transparent_inputs(data) ==
    IF Len(data) = 0 THEN ParseOk(<<>>, 0)
    ELSE IF Len(data) < 2 THEN ParseErr("header", 0)
    ELSE parse_loop(data, u16_from_le_bytes(data[1], data[2]), 0, 2, <<>>)

\* one input's bytes (types.rs:159-178)
serialize_input(input) ==
    pubkey_serialize(input.pubkey)
        \o input.txid
        \o u32_to_le_bytes(input.vout)
        \o u64_to_le_bytes(input.amount)
        \o u16_to_le_bytes(Len(input.script_pubkey) % 65536)
        \o input.script_pubkey

RECURSIVE serialize_from(_, _)
serialize_from(inputs, i) ==
    IF i > Len(inputs) THEN <<>>
    ELSE serialize_input(inputs[i]) \o serialize_from(inputs, i + 1)

\* serialize_transparent_inputs (types.rs:152-181)
serialize_transparent_inputs(inputs) ==
    u16_to_le_bytes(Len(inputs) % 65536) \o serialize_from(inputs, 1)

(***************************************************************************)
(* The inputs the model draws from.                                        *)
(***************************************************************************)
\* hash160 of a public key, 20 bytes (external: RIPEMD160(SHA256(pubkey)))
hash160(k) == Zeros(19) \o <<2 * k.x + (IF k.odd THEN 1 ELSE 0)>>

\* the P2PKH script of a key hash: OP_DUP OP_HASH160 <20> hash OP_EQUALVERIFY OP_CHECKSIG
p2pkh_script(h) == <<118, 169, 20>> \o h \o <<136, 172>>

KeyA == [odd |-> FALSE, x |-> 1]

KeyB == [odd |-> TRUE, x |-> 2]

TxidA == [i \in 1..32 |-> i]

TxidB == Zeros(32)

InputA == [pubkey |-> KeyA, txid |-> TxidA, vout |-> 0, amount |-> 100000000,
           script_pubkey |-> p2pkh_script(hash160(KeyA))]

InputB == [pubkey |-> KeyB, txid |-> TxidB, vout |-> 258, amount |-> 20000,
           script_pubkey |-> p2pkh_script(hash160(KeyB))]

\* an input whose script is empty
InputC == [pubkey |-> KeyA, txid |-> TxidA, vout |-> 1, amount |-> 0,
           script_pubkey |-> <<>>]

\* an input whose script is not P2PKH
InputD == [pubkey |-> KeyB, txid |-> TxidA, vout |-> 0, amount |-> 5000,
           script_pubkey |-> <<81>>]

SampleInputs == {InputA, InputB, InputC, InputD}

RECURSIVE ListsUpTo(_, _)
ListsUpTo(S, n) ==
    IF n = 0 THEN {<<>>}
    ELSE LET shorter == ListsUpTo(S, n - 1)
         IN  shorter \cup {Append(l, e) : l \in {m \in shorter : Len(m) = n - 1}, e \in S}

(***************************************************************************)
(* Addresses.  Decoding an address string is the external address codec's  *)
(* work; the model holds a few addresses of each kind and what the codec   *)
(* returns for them.                                                       *)
(***************************************************************************)
\* tests/common/fixtures.rs:10, 13
AddrT1 == "tm9iMLAuYMzJ6jtFLcA7rzUmfreGuKvr7Ma"

AddrT2 == "tmBsTi2xWTjUdEXnuTceL7fecEQKeWi4vxA"

\* a unified address with an Orchard receiver (fixtures.rs:16-28)
AddrUnifiedOrchard == "utest1-orchard-receiver"

\* a unified address with a Sapling receiver only
AddrUnifiedSapling == "utest1-sapling-receiver-only"

\* a Sapling address
AddrSapling == "ztestsapling1"

\* a string that is no address
AddrGarbage == "not-an-address"

\* Option<String>::None for a change address
NoAddress == ""

\* the first character of an address string (str::starts_with, types.rs:265, 271)
first_char(a) ==
    CASE a \in {AddrT1, AddrT2} -> "t"
      [] a \in {AddrUnifiedOrchard, AddrUnifiedSapling} -> "u"
      [] a = AddrSapling -> "z"
      [] OTHER -> "n"

\* str::parse::<ZcashAddress> (lib.rs:163, 237, 470)
decode_address(a) ==
    CASE a = AddrT1 -> [kind |-> "p2pkh", hash |-> Zeros(19) \o <<201>>, receivers |-> {}]
      [] a = AddrT2 -> [kind |-> "p2pkh", hash |-> Zeros(19) \o <<202>>, receivers |-> {}]
      [] a = AddrUnifiedOrchard ->
            [kind |-> "unified", hash |-> <<>>, receivers |-> {"orchard"}]
      [] a = AddrUnifiedSapling ->
            [kind |-> "unified", hash |-> <<>>, receivers |-> {"sapling"}]
      [] a = AddrSapling -> [kind |-> "sapling", hash |-> <<>>, receivers |-> {}]
      [] OTHER -> [kind |-> "invalid", hash |-> <<>>, receivers |-> {}]

\* ZcashAddress::convert::<TransparentAddress> succeeds (lib.rs:171, 239, 475)
is_transparent_address(a) == decode_address(a).kind = "p2pkh"

\* TransparentAddress::script (lib.rs:363; TransparentAddress::from_pubkey, lib.rs:246)
address_script(a) == p2pkh_script(decode_address(a).hash)

(***************************************************************************)
(* Payments and requests: types.rs:183-273.                                *)
(***************************************************************************)
\* Option<String>::None for a memo
NoMemo == ""

Payment(address, amount, memo) == [address |-> address, amount |-> amount, memo |-> memo]

\* Payment::is_unified (types.rs:269-272)
is_unified(p) == first_char(p.address) = "u"

RECURSIVE sum_amounts(_)
sum_amounts(s) == IF s = <<>> THEN 0 ELSE Head(s).amount + sum_amounts(Tail(s))

\* TransactionRequest::total_amount (types.rs:225-227)
total_amount(request) == sum_amounts(request.payments)

\* iter().filter(pred).count()
RECURSIVE count_unified(_)
count_unified(s) ==
    IF s = <<>> THEN 0
    ELSE (IF is_unified(Head(s)) THEN 1 ELSE 0) + count_unified(Tail(s))

(***************************************************************************)
(* Scripts: zcash_transparent::address::Script, a byte vector written with *)
(* a CompactSize length prefix.                                            *)
(***************************************************************************)
\* CompactSize::write for the lengths the model's scripts have (below 253)
compact_size(n) == <<n>>

\* Script::write (lib.rs:335)
script_write(script) == compact_size(Len(script)) \o script

\* an extract_raw_script that forgets to strip the length prefix
extract_raw_script_keep_prefix(script) == script_write(script)

\* extract_raw_script (lib.rs:333-343)
extract_raw_script(script) ==
    LET bytes == script_write(script)
    IN  IF bytes # <<>> /\ bytes[1] < 253 THEN Tail(bytes) ELSE bytes

(***************************************************************************)
(* The PCZT.  Its observable parts: the transparent inputs (with the       *)
(* hash160 preimage the Updater sets, the partial signature the Signer     *)
(* adds and the script_sig the Spend Finalizer adds), the transparent      *)
(* outputs, the Orchard actions and the bundle's proof.                    *)
(***************************************************************************)
\* builder.add_transparent_input(pubkey, outpoint, coin) (lib.rs:155) takes
\* a coin whose script pays to the hash of the given public key
is_p2pkh_of_pubkey(input) == input.script_pubkey = p2pkh_script(hash160(input.pubkey))

\* the input the Builder and the Updater make of a TransparentInput
\* (lib.rs:150-157, 269-279)
pczt_input(input) ==
    [pubkey |-> input.pubkey,
     txid |-> input.txid,
     vout |-> input.vout,
     value |-> input.amount,
     script_pubkey |-> input.script_pubkey,
     partial_signature |-> <<>>,
     script_sig |-> FALSE]

pczt_inputs(inputs) == [i \in 1..Len(inputs) |-> pczt_input(inputs[i])]

\* builder.add_transparent_output(&t_addr, amount) (lib.rs:173, 253): the
\* PCZT stores the raw script bytes
pczt_output(script, value) == [script_pubkey |-> script, value |-> value]

\* the length of a memo field: MemoBytes::from_bytes (lib.rs:201) takes up to
\* this many bytes
MEMO_LEN == 512

\* MemoBytes::empty(): the marker of "no memo" and zeros
MemoBytes_empty == [no_memo |-> TRUE, text |-> "", zeros |-> MEMO_LEN - 1]

\* MemoBytes::from_bytes(m.as_bytes()): the text and zeros up to MEMO_LEN,
\* or an error for a longer text
MemoBytes_from_bytes(m) ==
    IF Len(m) > MEMO_LEN THEN <<>>
    ELSE <<[no_memo |-> FALSE, text |-> m, zeros |-> MEMO_LEN - Len(m)]>>

\* payment.memo.as_ref().and_then(|m| MemoBytes::from_bytes(m.as_bytes()).ok())
\*     .unwrap_or_else(|| MemoBytes::empty()) (lib.rs:200-202)
memo_bytes(memo) ==
    LET converted == IF memo = NoMemo THEN <<>> ELSE MemoBytes_from_bytes(memo)
    IN  IF converted = <<>> THEN MemoBytes_empty ELSE converted[1]

\* builder.add_orchard_output(None, orchard_addr, amount, memo) (lib.rs:200-205)
orchard_action(p) ==
    [recipient |-> p.address, value |-> p.amount, memo |-> memo_bytes(p.memo),
     dummy |-> FALSE]

\* a padding action
dummy_action ==
    [recipient |-> NoAddress, value |-> 0, memo |-> MemoBytes_empty, dummy |-> TRUE]

\* the transparent outputs the payments loop adds, in order (lib.rs:160-212)
RECURSIVE payment_outputs_of(_)
payment_outputs_of(payments) ==
    IF payments = <<>> THEN <<>>
    ELSE (IF is_transparent_address(Head(payments).address)
          THEN <<pczt_output(address_script(Head(payments).address), Head(payments).amount)>>
          ELSE <<>>)
         \o payment_outputs_of(Tail(payments))

\* the Orchard outputs the payments loop adds, in order (lib.rs:193-205)
RECURSIVE orchard_outputs_of(_)
orchard_outputs_of(payments) ==
    IF payments = <<>> THEN <<>>
    ELSE (IF is_transparent_address(Head(payments).address)
          THEN <<>>
          ELSE <<orchard_action(Head(payments))>>)
         \o orchard_outputs_of(Tail(payments))

\* the number of actions of the bundle the external builder makes for n
\* outputs (lib.rs:258): padded to an even number as lib.rs:69-70 takes it
\* to be, or to the bundle's minimum of two actions
orchard_num_actions(n, pad) ==
    IF n = 0 THEN 0
    ELSE IF pad = "even" THEN ((n + 1) \div 2) * 2
    ELSE Max(n, 2)

\* the bundle's actions: the outputs, then the padding
orchard_actions_of(payments, pad) ==
    LET outs == orchard_outputs_of(payments)
        padded == orchard_num_actions(Len(outs), pad)
    IN  outs \o [i \in 1..(padded - Len(outs)) |-> dummy_action]

\* the first error of the payments loop, "" when every payment is added
\* (lib.rs:160-212); `rejects` names the builder call, if any, that the
\* external builder refuses
RECURSIVE payments_error(_, _)
payments_error(payments, rejects) ==
    IF payments = <<>> THEN ""
    ELSE LET p == Head(payments)
             addr == decode_address(p.address)
         IN  IF addr.kind = "invalid" THEN "InvalidAddress"
             ELSE IF addr.kind = "p2pkh"
                  THEN IF rejects = "add_transparent_output" THEN "PcztCreation"
                       ELSE payments_error(Tail(payments), rejects)
             ELSE IF addr.kind # "unified" THEN "InvalidAddress"
             ELSE IF "orchard" \notin addr.receivers THEN "InvalidAddress"
             ELSE IF rejects = "add_orchard_output" THEN "PcztCreation"
             ELSE payments_error(Tail(payments), rejects)

ProposeErr(err) ==
    [ok |-> FALSE, err |-> err, pczt |-> <<>>]

ProposeOk(pczt) == [ok |-> TRUE, err |-> "", pczt |-> <<pczt>>]

\* an estimate that forgets the change output
estimated_fee_no_change(inputs, request) ==
    calculate_fee(Len(inputs),
                  Len(request.payments) - count_unified(request.payments),
                  count_unified(request.payments))

\* the fee estimate of lib.rs:218-228
estimated_fee(inputs, request) ==
    LET num_orchard == count_unified(request.payments)
        num_transparent_payment_outputs == Len(request.payments) - num_orchard
        num_transparent_outputs_ == num_transparent_payment_outputs + 1
    IN  calculate_fee(Len(inputs), num_transparent_outputs_, num_orchard)

\* a change address that falls back to the first input's key when the one
\* supplied is not transparent
change_addr_or_derived(inputs, change_address) ==
    IF change_address # NoAddress /\ is_transparent_address(change_address)
    THEN [err |-> "", script |-> address_script(change_address)]
    ELSE IF inputs = <<>> THEN [err |-> "InvalidRequest", script |-> <<>>]
    ELSE [err |-> "", script |-> p2pkh_script(hash160(inputs[1].pubkey))]

\* "Get or derive change address" (lib.rs:234-247): the script of the
\* address the change goes to, or the error
change_addr(inputs, change_address) ==
    IF change_address # NoAddress
    THEN IF decode_address(change_address).kind = "invalid"
         THEN [err |-> "InvalidAddress", script |-> <<>>]
         ELSE IF ~is_transparent_address(change_address)
         THEN [err |-> "InvalidRequest", script |-> <<>>]
         ELSE [err |-> "", script |-> address_script(change_address)]
    ELSE IF inputs = <<>> THEN [err |-> "InvalidRequest", script |-> <<>>]
         ELSE [err |-> "", script |-> p2pkh_script(hash160(inputs[1].pubkey))]

\* propose_transaction_with_network, from the change computation on
\* (lib.rs:214-287)
propose_change_and_build(inputs, request, change_address, rejects, pad) ==
    LET total_input == sum_amounts(inputs)
        total_output == total_amount(request)
        fee_estimate == estimated_fee(inputs, request)
        payment_outputs == payment_outputs_of(request.payments)
        built(outputs) ==
            IF rejects = "build_for_pczt" THEN ProposeErr("PcztCreation")
            ELSE ProposeOk([inputs |-> pczt_inputs(inputs),
                            outputs |-> outputs,
                            actions |-> orchard_actions_of(request.payments, pad),
                            proof |-> FALSE])
    IN  IF total_input > total_output + fee_estimate
        THEN LET change_amount == total_input - total_output - fee_estimate
                 change == change_addr(inputs, change_address)
             IN  IF change.err # "" THEN ProposeErr(change.err)
                 ELSE IF rejects = "add_change_output" THEN ProposeErr("PcztCreation")
                 ELSE built(Append(payment_outputs, pczt_output(change.script, change_amount)))
        ELSE built(payment_outputs)

\* propose_transaction_with_network (lib.rs:126-288).  Every amount of the
\* model is a valid Zatoshis value.
propose_transaction_with_network(inputs_to_spend, request, change_address, rejects, pad) ==
    LET parsed == parse_transparent_inputs(inputs_to_spend)
    IN  IF ~parsed.ok THEN ProposeErr("InvalidRequest")
        ELSE IF \/ \E i \in 1..Len(parsed.inputs) : ~is_p2pkh_of_pubkey(parsed.inputs[i])
                \/ parsed.inputs # <<>> /\ rejects = "add_transparent_input"
             THEN ProposeErr("PcztCreation")
        ELSE IF payments_error(request.payments, rejects) # ""
             THEN ProposeErr(payments_error(request.payments, rejects))
        ELSE propose_change_and_build(parsed.inputs, request, change_address,
                                      rejects, pad)

\* a propose_transaction that hands every request on to the Builder
propose_transaction_unchecked(inputs_to_spend, request, change_address, rejects, pad) ==
    propose_transaction_with_network(inputs_to_spend, request, change_address, rejects, pad)

\* propose_transaction (lib.rs:105-123)
propose_transaction(inputs_to_spend, request, change_address, rejects, pad) ==
    IF request.payments = <<>> THEN ProposeErr("InvalidRequest")
    ELSE propose_transaction_with_network(inputs_to_spend, request, change_address,
                                          rejects, pad)

(***************************************************************************)
(* Verification before signing: lib.rs:328-501.                            *)
(***************************************************************************)
\* zcash_transparent::bundle::TxOut
TxOut(value, script_pubkey) == [value |-> value, script_pubkey |-> script_pubkey]

\* output_matches_txout (lib.rs:346-355)
output_matches_txout(pczt_out, txout) ==
    /\ pczt_out.script_pubkey = extract_raw_script(txout.script_pubkey)
    /\ pczt_out.value = txout.value

\* a match on the script alone
output_matches_payment_any_amount(pczt_out, addr, amount) ==
    pczt_out.script_pubkey = extract_raw_script(address_script(addr))

\* output_matches_payment (lib.rs:358-369)
output_matches_payment(pczt_out, addr, amount) ==
    /\ pczt_out.script_pubkey = extract_raw_script(address_script(addr))
    /\ pczt_out.value = amount

\* a separation that does not count the change outputs it finds
separate_change_outputs_uncounted(transparent_outputs, expected_change) ==
    LET is_change(o) ==
            \E e \in 1..Len(expected_change) : output_matches_txout(o, expected_change[e])
        is_payment(o) == ~is_change(o)
    IN  [ok |-> TRUE, payment_outputs |-> SelectSeq(transparent_outputs, is_payment)]

\* separate_change_outputs (lib.rs:372-395)
separate_change_outputs(transparent_outputs, expected_change) ==
    LET is_change(o) ==
            \E e \in 1..Len(expected_change) : output_matches_txout(o, expected_change[e])
        change_count ==
            Cardinality({i \in 1..Len(transparent_outputs) : is_change(transparent_outputs[i])})
        is_payment(o) == ~is_change(o)
    IN  [ok |-> change_count = Len(expected_change),
         payment_outputs |-> SelectSeq(transparent_outputs, is_payment)]

\* verify_transparent_payment (lib.rs:398-413)
verify_transparent_payment(payment_outputs, addr, amount) ==
    \E i \in 1..Len(payment_outputs) : output_matches_payment(payment_outputs[i], addr, amount)

\* the payments loop of verify_before_signing (lib.rs:468-483): the first
\* failure, "" when every payment is found
RECURSIVE verify_payments(_, _, _)
verify_payments(payments, payment_outputs, num_orchard_outputs_) ==
    IF payments = <<>> THEN ""
    ELSE LET p == Head(payments)
         IN  IF decode_address(p.address).kind = "invalid" THEN "OutputMismatch"
             ELSE IF is_transparent_address(p.address)
                  THEN IF verify_transparent_payment(payment_outputs, p.address, p.amount)
                       THEN verify_payments(Tail(payments), payment_outputs,
                                            num_orchard_outputs_)
                       ELSE "OutputMismatch"
             ELSE IF num_orchard_outputs_ = 0 THEN "OutputMismatch"
             ELSE verify_payments(Tail(payments), payment_outputs, num_orchard_outputs_)

RECURSIVE sum_values(_)
sum_values(s) == IF s = <<>> THEN 0 ELSE Head(s).value + sum_values(Tail(s))

\* a count test that only asks for enough outputs
output_count_short(total_outputs, num_payments, num_expected_change) ==
    total_outputs < num_payments + num_expected_change

\* "Verify output counts" (lib.rs:443-459): whether the test fails
output_count_mismatch(total_outputs, num_payments, num_expected_change) ==
    IF num_expected_change = 0
    THEN total_outputs < num_payments
    ELSE LET expected_total == num_payments + num_expected_change
         IN  total_outputs # expected_total

\* a fee test without the allowance of one percent
fee_unreasonable_no_allowance(total_output_value, requested_total) ==
    /\ total_output_value > 0
    /\ requested_total > 0
    /\ total_output_value < requested_total

\* the fee test of verify_before_signing (lib.rs:492-497)
fee_unreasonable(total_output_value, requested_total) ==
    /\ total_output_value > 0
    /\ requested_total > 0
    /\ LET max_reasonable_fee == requested_total \div 100
       IN  total_output_value + max_reasonable_fee < requested_total

\* verify_before_signing (lib.rs:432-501): "" for Ok(()), else the failure
verify_before_signing(pczt, request, expected_change) ==
    LET transparent_outputs == pczt.outputs
        num_orchard_outputs_ == Len(pczt.actions)
        num_payments == Len(request.payments)
        total_outputs == Len(transparent_outputs) + num_orchard_outputs_
        separated == separate_change_outputs(transparent_outputs, expected_change)
        payment_outputs ==
            IF expected_change # <<>> THEN separated.payment_outputs ELSE transparent_outputs
        payments_result ==
            verify_payments(request.payments, payment_outputs, num_orchard_outputs_)
        total_output_value == sum_values(transparent_outputs)
        requested_total == total_amount(request)
    IN  IF output_count_mismatch(total_outputs, num_payments, Len(expected_change))
        THEN "OutputMismatch"
        ELSE IF expected_change # <<>> /\ ~separated.ok THEN "ChangeMismatch"
        ELSE IF payments_result # "" THEN payments_result
        ELSE IF num_orchard_outputs_ = 0 /\ fee_unreasonable(total_output_value, requested_total)
             THEN "InvalidFee"
        ELSE ""

(***************************************************************************)
(* Sighashes and signatures.  A digest is modelled by what it commits to,  *)
(* an ECDSA signature by the key and the message it validates for.         *)
(***************************************************************************)
\* what every signature commits to of an input
signed_input(input) == <<input.txid, input.vout, input.value, input.script_pubkey>>

\* Signer::transparent_sighash (lib.rs:529): the digest of the transaction's
\* effects and the input's position
transparent_sighash(pczt, input_index) ==
    <<[i \in 1..Len(pczt.inputs) |-> signed_input(pczt.inputs[i])],
      pczt.outputs, pczt.actions, input_index>>

\* a 64-byte compact signature: one made by `key` over `msg` ...
ecdsa_sign(key, msg) == [wellformed |-> TRUE, key |-> key, msg |-> msg]

\* ... and 64 bytes that secp256k1 does not take for a signature
MalformedSignature == [wellformed |-> FALSE, key |-> KeyA, msg |-> <<>>]

\* an index check that lets the index one past the end through
index_in_range_off_by_one(input_index, len) == ~(input_index > len)

\* an index check that lets only the first input through
index_in_range_first_only(input_index, len) == input_index = 0 /\ len > 0

\* the index test of get_sighash and append_signature (lib.rs:521, 561)
index_in_range(input_index, len) == ~(input_index >= len)

SighashErr(err) == [ok |-> FALSE, err |-> err, hash |-> <<>>]

\* get_sighash (lib.rs:514-537)
get_sighash(pczt, input_index) ==
    IF ~index_in_range(input_index, Len(pczt.inputs)) THEN SighashErr("InvalidInputIndex")
    ELSE [ok |-> TRUE, err |-> "", hash |-> transparent_sighash(pczt, input_index)]

SignErr(err) == [ok |-> FALSE, err |-> err, pczt |-> <<>>]

\* Signer::append_transparent_signature (lib.rs:574): the role's own index
\* test, then the signature checked against the input's key and sighash
signer_append_transparent_signature(pczt, input_index, sig) ==
    IF input_index >= Len(pczt.inputs) THEN "InvalidIndex"
    ELSE LET input == pczt.inputs[input_index + 1]
         IN  IF /\ is_p2pkh_of_pubkey(input)
                /\ sig.key = input.pubkey
                /\ sig.msg = transparent_sighash(pczt, input_index)
             THEN ""
             ELSE "TransparentSign"

\* an append_signature that returns the PCZT as it was
append_signature_dropped(pczt, input_index, sig) ==
    IF ~index_in_range(input_index, Len(pczt.inputs)) THEN SignErr("InvalidInputIndex")
    ELSE [ok |-> TRUE, err |-> "", pczt |-> <<pczt>>]

\* append_signature (lib.rs:553-584)
append_signature(pczt, input_index, sig) ==
    IF ~index_in_range(input_index, Len(pczt.inputs)) THEN SignErr("InvalidInputIndex")
    ELSE IF ~sig.wellformed THEN SignErr("InvalidFormat")
    ELSE LET e == signer_append_transparent_signature(pczt, input_index, sig)
         IN  IF e = "InvalidIndex" THEN SignErr("InvalidInputIndex")
             ELSE IF e = "TransparentSign" THEN SignErr("VerificationFailed")
             ELSE [ok |-> TRUE, err |-> "",
                   pczt |-> <<[pczt EXCEPT !.inputs[input_index + 1].partial_signature =
                                               <<sig>>]>>]

(***************************************************************************)
(* Prover, Combiner, Spend Finalizer, Transaction Extractor and the PCZT's *)
(* wire form: lib.rs:302-326, 599-675.                                     *)
(***************************************************************************)
\* a Prover that asks for an Orchard proof whatever the PCZT holds
requires_orchard_proof_always(pczt) == TRUE

\* Prover::requires_orchard_proof (lib.rs:312)
requires_orchard_proof(pczt) == pczt.actions # <<>>

\* prove_transaction (lib.rs:302-326); `proof_ok` is whether the external
\* prover makes the proof
prove_transaction(pczt, proof_ok) ==
    IF requires_orchard_proof(pczt)
    THEN IF proof_ok
         THEN [ok |-> TRUE, err |-> "", pczt |-> <<[pczt EXCEPT !.proof = TRUE]>>]
         ELSE [ok |-> FALSE, err |-> "OrchardProof", pczt |-> <<>>]
    ELSE [ok |-> TRUE, err |-> "", pczt |-> <<pczt>>]

\* what two PCZTs of the same transaction share
pczt_effects(pczt) ==
    <<[i \in 1..Len(pczt.inputs) |-> <<signed_input(pczt.inputs[i]), pczt.inputs[i].pubkey>>],
      pczt.outputs, pczt.actions>>

\* a merge that keeps the signatures of the first PCZT only
merge_pczt_first_only(a, b) ==
    IF pczt_effects(a) # pczt_effects(b) THEN <<>> ELSE <<a>>

\* a merge that hands the inputs back in the opposite order
merge_pczt_reordered(a, b) ==
    IF pczt_effects(a) # pczt_effects(b) THEN <<>>
    ELSE <<[a EXCEPT !.inputs = [i \in 1..Len(a.inputs) |-> a.inputs[Len(a.inputs) + 1 - i]]]>>

\* the Combiner's merge of two PCZTs (lib.rs:611-612): <<>> on a mismatch
merge_pczt(a, b) ==
    IF pczt_effects(a) # pczt_effects(b) THEN <<>>
    ELSE IF \E i \in 1..Len(a.inputs) :
                /\ a.inputs[i].partial_signature # <<>>
                /\ b.inputs[i].partial_signature # <<>>
                /\ a.inputs[i].partial_signature # b.inputs[i].partial_signature
         THEN <<>>
    ELSE <<[inputs |-> [i \in 1..Len(a.inputs) |->
                          [a.inputs[i] EXCEPT
                              !.partial_signature =
                                  IF a.inputs[i].partial_signature # <<>>
                                  THEN a.inputs[i].partial_signature
                                  ELSE b.inputs[i].partial_signature,
                              !.script_sig = a.inputs[i].script_sig \/ b.inputs[i].script_sig]],
            outputs |-> a.outputs,
            actions |-> a.actions,
            proof |-> a.proof \/ b.proof]>>

RECURSIVE merge_all(_, _)
merge_all(acc, rest) ==
    IF acc = <<>> \/ rest = <<>> THEN acc
    ELSE merge_all(merge_pczt(acc[1], Head(rest)), Tail(rest))

\* a combine that sends a single PCZT through the Combiner and back, which
\* keeps the signatures and loses the proof
combine_single_rebuilt(pczts) ==
    IF pczts = <<>> THEN [ok |-> FALSE, err |-> "NoPczts", pczt |-> <<>>]
    ELSE IF Len(pczts) = 1
         THEN [ok |-> TRUE, err |-> "", pczt |-> <<[pczts[1] EXCEPT !.proof = FALSE]>>]
    ELSE LET merged == merge_all(<<Head(pczts)>>, Tail(pczts))
         IN  IF merged = <<>> THEN [ok |-> FALSE, err |-> "DataMismatch", pczt |-> <<>>]
             ELSE [ok |-> TRUE, err |-> "", pczt |-> merged]

\* combine (lib.rs:599-617)
combine(pczts) ==
    IF pczts = <<>> THEN [ok |-> FALSE, err |-> "NoPczts", pczt |-> <<>>]
    ELSE IF Len(pczts) = 1 THEN [ok |-> TRUE, err |-> "", pczt |-> <<pczts[1]>>]
    ELSE LET merged == merge_all(<<Head(pczts)>>, Tail(pczts))
         IN  IF merged = <<>> THEN [ok |-> FALSE, err |-> "DataMismatch", pczt |-> <<>>]
             ELSE [ok |-> TRUE, err |-> "", pczt |-> merged]

\* a Spend Finalizer that passes over the inputs without a signature
finalize_spends_skip_unsigned(pczt) ==
    <<[pczt EXCEPT !.inputs = [i \in 1..Len(pczt.inputs) |->
          [pczt.inputs[i] EXCEPT !.script_sig = pczt.inputs[i].partial_signature # <<>>]]]>>

\* SpendFinalizer::finalize_spends (lib.rs:635-637): every P2PKH input's
\* partial signature becomes its script_sig; <<>> when an input has none
finalize_spends(pczt) ==
    IF \E i \in 1..Len(pczt.inputs) :
           \/ pczt.inputs[i].partial_signature = <<>>
           \/ ~is_p2pkh_of_pubkey(pczt.inputs[i])
    THEN <<>>
    ELSE <<[pczt EXCEPT !.inputs = [i \in 1..Len(pczt.inputs) |->
               [pczt.inputs[i] EXCEPT !.script_sig = TRUE]]]>>

\* TransactionExtractor::extract (lib.rs:642-644) succeeds on a PCZT whose
\* inputs are all finalized and whose Orchard bundle, if any, is proven
extract_ok(pczt) ==
    /\ \A i \in 1..Len(pczt.inputs) : pczt.inputs[i].script_sig
    /\ pczt.actions # <<>> => pczt.proof

\* Transaction::write (lib.rs:647-649): the v5 header, then the bundles
transaction_write(pczt) ==
    <<5, 0, 0, 128>> \o <<Len(pczt.inputs)>> \o <<Len(pczt.outputs)>> \o <<Len(pczt.actions)>>

FinalizeErr(err) == [ok |-> FALSE, err |-> err, bytes |-> <<>>]

\* finalize_and_extract (lib.rs:630-652)
finalize_and_extract(pczt) ==
    LET finalized == finalize_spends(pczt)
    IN  IF finalized = <<>> THEN FinalizeErr("SpendFinalization")
        ELSE IF ~extract_ok(finalized[1]) THEN FinalizeErr("TransactionExtraction")
        ELSE [ok |-> TRUE, err |-> "", bytes |-> transaction_write(finalized[1])]

\* the magic of the PCZT's wire form
PCZT_MAGIC == "PCZT"

\* serialize_pczt (lib.rs:673-675)
serialize_pczt(pczt) == <<PCZT_MAGIC, pczt.inputs, pczt.outputs, pczt.actions, pczt.proof>>

\* bytes that are no PCZT
JunkBytes == <<"junk">>

\* parse_pczt (lib.rs:661-664)
parse_pczt(pczt_bytes) ==
    IF Len(pczt_bytes) = 5 /\ pczt_bytes[1] = PCZT_MAGIC
    THEN [ok |-> TRUE, err |-> "",
          pczt |-> <<[inputs |-> pczt_bytes[2], outputs |-> pczt_bytes[3],
                      actions |-> pczt_bytes[4], proof |-> pczt_bytes[5]]>>]
    ELSE [ok |-> FALSE, err |-> "InvalidFormat", pczt |-> <<>>]


(***************************************************************************)
(* The fee calculator's call as an action.                                 *)
(***************************************************************************)
FeeIdle ==
    /\ num_transparent_inputs = 0
    /\ num_transparent_outputs = 0
    /\ num_orchard_outputs = 0
    /\ fee = 0
    /\ fee_pc = "call"

FeeInit ==
    /\ num_transparent_inputs \in 0..MaxCount
    /\ num_transparent_outputs \in 0..MaxCount
    /\ num_orchard_outputs \in 0..MaxCount
    /\ fee = 0
    /\ fee_pc = "call"

\* pczt_calculate_fee / calculate_fee: one call with the chosen counts
CalculateFee ==
    /\ fee_pc = "call"
    /\ fee_pc' = "done"
    /\ fee' = calculate_fee(num_transparent_inputs, num_transparent_outputs,
                            num_orchard_outputs)
    /\ UNCHANGED <<num_transparent_inputs, num_transparent_outputs, num_orchard_outputs>>
    /\ UNCHANGED nonFeeVars

FeeNext == CalculateFee

(***************************************************************************)
(* The codec's operations as actions.                                      *)
(***************************************************************************)
NoResult == ParseErr("not parsed", 0)

CodecIdle ==
    /\ c_inputs = <<>>
    /\ c_data = <<>>
    /\ c_mutated = FALSE
    /\ c_result = NoResult
    /\ c_out = <<>>
    /\ c_pc = "idle"

CodecInit ==
    /\ c_inputs \in ListsUpTo(SampleInputs, MaxCodecInputs)
    /\ c_data = <<>>
    /\ c_mutated = FALSE
    /\ c_result = NoResult
    /\ c_out = <<>>
    /\ c_pc = "start"

\* serialize_transparent_inputs(&c_inputs)
CSerialize ==
    /\ c_pc = "start"
    /\ c_data' = serialize_transparent_inputs(c_inputs)
    /\ c_pc' = "buffer"
    /\ UNCHANGED <<c_inputs, c_mutated, c_result, c_out>>
    /\ UNCHANGED nonCodecVars

\* the caller hands parse a shorter buffer
CTruncate ==
    /\ c_pc = "buffer" /\ ~c_mutated
    /\ \E n \in 0..(Len(c_data) - 1) : c_data' = SubSeq(c_data, 1, n)
    /\ c_mutated' = TRUE
    /\ UNCHANGED <<c_inputs, c_result, c_out, c_pc>>
    /\ UNCHANGED nonCodecVars

\* the caller hands parse a buffer with bytes after the last input
CTrailing ==
    /\ c_pc = "buffer" /\ ~c_mutated
    /\ \E b \in {0, 255} : c_data' = Append(c_data, b)
    /\ c_mutated' = TRUE
    /\ UNCHANGED <<c_inputs, c_result, c_out, c_pc>>
    /\ UNCHANGED nonCodecVars

\* the caller hands parse a buffer whose i-th public key is altered: a bad
\* prefix byte, or an x coordinate that is not on the curve
CBadPubkey ==
    /\ c_pc = "buffer" /\ ~c_mutated
    /\ \E i \in 1..Len(c_inputs) :
          LET start == 2 + Len(serialize_from(SubSeq(c_inputs, 1, i - 1), 1))
          IN  \/ c_data' = [c_data EXCEPT ![start + 1] = 4]
              \/ c_data' = [c_data EXCEPT ![start + PUBKEY_LEN] = 5]
    /\ c_mutated' = TRUE
    /\ UNCHANGED <<c_inputs, c_result, c_out, c_pc>>
    /\ UNCHANGED nonCodecVars

\* parse_transparent_inputs(&c_data)
CParse ==
    /\ c_pc = "buffer"
    /\ c_result' = parse_transparent_inputs(c_data)
    /\ c_pc' = "parsed"
    /\ UNCHANGED <<c_inputs, c_data, c_mutated, c_out>>
    /\ UNCHANGED nonCodecVars

\* serialize_transparent_inputs on the list parse returned
CReserialize ==
    /\ c_pc = "parsed"
    /\ c_result.ok
    /\ c_out' = serialize_transparent_inputs(c_result.inputs)
    /\ c_pc' = "reserialized"
    /\ UNCHANGED <<c_inputs, c_data, c_mutated, c_result>>
    /\ UNCHANGED nonCodecVars

CodecNext ==
    \/ CSerialize
    \/ CTruncate
    \/ CTrailing
    \/ CBadPubkey
    \/ CParse
    \/ CReserialize

(***************************************************************************)
(* The Rust API: one caller that builds a PCZT from a request and takes it *)
(* through the stages.  p_owned is the PCZT value the caller owns, if any; *)
(* a stage that takes its PCZT by value takes it away.  p_last is the last *)
(* call and its result, and p_signed lists the inputs for which            *)
(* append_signature has returned Ok, in the order of the calls.            *)
(***************************************************************************)
\* input lists of the sample transactions (tests/common/fixtures.rs:112-118)
CoreInputLists == {<<>>, <<InputA>>, <<InputA, InputB>>, <<InputB, InputA>>}

\* half a header: a buffer parse_transparent_inputs refuses
ShortBuffer == <<1>>

\* no bytes at all, which parse_transparent_inputs reads as no inputs
\* (types.rs:72-74)
EmptyBuffer == <<>>

CoreBuffers ==
    {serialize_transparent_inputs(l) : l \in CoreInputLists} \cup {ShortBuffer, EmptyBuffer}

\* tests/common/fixtures.rs:94-110, tests/test_append_signature.rs:16-19
PayT1 == Payment(AddrT1, 100000, NoMemo)

PayT2 == Payment(AddrT2, 10000, NoMemo)

PayU == Payment(AddrUnifiedOrchard, 100000, "Test payment")

\* a text of n characters
RECURSIVE TextOfLen(_)
TextOfLen(n) ==
    IF n = 0 THEN ""
    ELSE LET half == TextOfLen(n \div 2)
         IN  half \o half \o (IF n % 2 = 1 THEN "m" ELSE "")

\* a shielded payment whose memo is one byte longer than a memo field
PayULongMemo == Payment(AddrUnifiedOrchard, 100000, TextOfLen(MEMO_LEN + 1))

\* everything InputA holds but the fee of a transaction with change
PayExact == Payment(AddrT1, 99990000, NoMemo)

PayGarbage == Payment(AddrGarbage, 100000, NoMemo)

PaySaplingOnly == Payment(AddrUnifiedSapling, 100000, NoMemo)

TransactionRequest(payments) == [payments |-> payments]

SampleRequests ==
    {TransactionRequest(ps) :
        ps \in {<<>>, <<PayT1>>, <<PayT1, PayT2>>, <<PayU>>, <<PayT1, PayU>>,
                <<PayU, PayU, PayU>>, <<PayULongMemo>>, <<PayExact>>, <<PayGarbage>>, <<PaySaplingOnly>>}}

ChangeAddresses == {NoAddress, AddrT2, AddrUnifiedOrchard, AddrGarbage}

\* the builder call the external builder refuses, if any
RejectPoints ==
    {"none", "add_transparent_input", "add_transparent_output", "add_orchard_output",
     "add_change_output", "build_for_pczt"}

PadRules == {"even", "minimum"}

\* a call: its arguments (the PCZT in `arg`, with p_signed as it was, the
\* index, and the signature, expected change or bytes in `data`), whether it
\* returned Ok, and the error or the bytes it returned
Call(op, ok, err, index, arg, signed, data, bytes) ==
    [op |-> op, ok |-> ok, err |-> err, index |-> index, arg |-> arg,
     signed |-> signed, data |-> data, bytes |-> bytes]

NoCall == Call("none", TRUE, "", 0, <<>>, <<>>, <<>>, <<>>)

CoreIdle ==
    /\ p_pc = "idle"
    /\ p_inputs = <<>>
    /\ p_request = TransactionRequest(<<>>)
    /\ p_change = NoAddress
    /\ p_owned = <<>>
    /\ p_signed = <<>>
    /\ p_built = <<>>
    /\ p_last = NoCall
    /\ checkpoint = <<>>
    /\ checkpoint_signed = <<>>

CoreInit ==
    /\ p_pc = "start"
    /\ p_inputs \in CoreBuffers
    /\ p_request \in SampleRequests
    /\ p_change \in ChangeAddresses
    /\ p_owned = <<>>
    /\ p_signed = <<>>
    /\ p_built = <<>>
    /\ p_last = NoCall
    /\ checkpoint = <<>>
    /\ checkpoint_signed = <<>>

\* propose_transaction(&inputs, request, change_address)
Propose ==
    /\ p_pc = "start"
    /\ \E rejects \in RejectPoints, pad \in PadRules :
          LET r == propose_transaction(p_inputs, p_request, p_change, rejects, pad)
          IN  /\ p_owned' = r.pczt
              /\ p_built' = r.pczt
              /\ p_last' = Call("propose_transaction", r.ok, r.err, 0, <<>>, <<>>, <<>>, <<>>)
    /\ p_pc' = "built"
    /\ UNCHANGED <<p_inputs, p_request, p_change, p_signed, checkpoint,
                   checkpoint_signed>>
    /\ UNCHANGED nonCoreVars

\* the change outputs of a built PCZT, as the caller expects them
change_of(pczt, request) ==
    LET n == Len(payment_outputs_of(request.payments))
    IN  [i \in 1..(Len(pczt.outputs) - n) |->
            TxOut(pczt.outputs[n + i].value, pczt.outputs[n + i].script_pubkey)]

\* a change output nobody added
StrangerChange == <<TxOut(1, address_script(AddrT2))>>

\* verify_before_signing(&pczt, &request, &expected_change)
Verify ==
    /\ p_pc = "built"
    /\ p_owned # <<>>
    /\ \E expected_change \in {<<>>, change_of(p_owned[1], p_request), StrangerChange} :
          LET e == verify_before_signing(p_owned[1], p_request, expected_change)
          IN  p_last' = Call("verify_before_signing", e = "", e, 0, p_owned, p_signed,
                             expected_change, <<>>)
    /\ UNCHANGED <<p_pc, p_inputs, p_request, p_change, p_owned, p_signed, p_built,
                   checkpoint, checkpoint_signed>>
    /\ UNCHANGED nonCoreVars

\* prove_transaction(pczt)
Prove ==
    /\ p_pc = "built"
    /\ p_owned # <<>>
    /\ \E proof_ok \in BOOLEAN :
          LET r == prove_transaction(p_owned[1], proof_ok)
          IN  /\ p_owned' = r.pczt
              /\ p_signed' = IF r.ok THEN p_signed ELSE <<>>
              /\ p_last' = Call("prove_transaction", r.ok, r.err, 0, p_owned, p_signed,
                                <<>>, <<>>)
    /\ UNCHANGED <<p_pc, p_inputs, p_request, p_change, p_built, checkpoint,
                   checkpoint_signed>>
    /\ UNCHANGED nonCoreVars

\* get_sighash(&pczt, input_index)
GetSighash ==
    /\ p_pc = "built"
    /\ p_owned # <<>>
    /\ \E input_index \in 0..Len(p_owned[1].inputs) :
          LET r == get_sighash(p_owned[1], input_index)
          IN  p_last' = Call("get_sighash", r.ok, r.err, input_index, p_owned, p_signed,
                             <<>>, r.hash)
    /\ UNCHANGED <<p_pc, p_inputs, p_request, p_change, p_owned, p_signed, p_built,
                   checkpoint, checkpoint_signed>>
    /\ UNCHANGED nonCoreVars

\* the signatures a caller may hand to append_signature for an input
SignaturesFor(pczt, input_index) ==
    {MalformedSignature, ecdsa_sign(KeyA, <<>>)}
        \cup (IF input_index < Len(pczt.inputs)
              THEN {ecdsa_sign(key, transparent_sighash(pczt, input_index)) :
                        key \in {KeyA, KeyB}}
              ELSE {})

\* s, with x added at its end unless it is there
Noted(s, x) == IF \E i \in 1..Len(s) : s[i] = x THEN s ELSE Append(s, x)

\* append_signature(pczt, input_index, signature)
AppendSignature ==
    /\ p_pc = "built"
    /\ p_owned # <<>>
    /\ \E input_index \in 0..(Len(p_owned[1].inputs) + 1) :
       \E sig \in SignaturesFor(p_owned[1], input_index) :
          LET r == append_signature(p_owned[1], input_index, sig)
          IN  /\ p_owned' = r.pczt
              /\ p_signed' = IF r.ok THEN Noted(p_signed, input_index) ELSE <<>>
              /\ p_last' = Call("append_signature", r.ok, r.err, input_index, p_owned,
                                p_signed, <<sig>>, <<>>)
    /\ UNCHANGED <<p_pc, p_inputs, p_request, p_change, p_built, checkpoint,
                   checkpoint_signed>>
    /\ UNCHANGED nonCoreVars

\* let bytes = serialize_pczt(&pczt), kept by the caller
Checkpoint ==
    /\ p_pc = "built"
    /\ p_owned # <<>>
    /\ checkpoint = <<>>
    /\ checkpoint' = serialize_pczt(p_owned[1])
    /\ checkpoint_signed' = p_signed
    /\ p_last' = Call("serialize_pczt", TRUE, "", 0, p_owned, p_signed, <<>>, <<>>)
    /\ UNCHANGED <<p_pc, p_inputs, p_request, p_change, p_owned, p_signed, p_built>>
    /\ UNCHANGED nonCoreVars

\* parse_pczt(&bytes), of the checkpoint or of bytes that are no PCZT, by a
\* caller that owns no PCZT; the call remembers the by-value call that has
\* just failed, if it follows one
Parse ==
    /\ p_pc = "built"
    /\ p_owned = <<>>
    /\ \E bytes \in {checkpoint, JunkBytes} :
          LET r == parse_pczt(bytes)
          IN  /\ p_owned' = r.pczt
              /\ p_signed' = IF r.ok THEN checkpoint_signed ELSE <<>>
              /\ p_last' = Call("parse_pczt", r.ok, r.err, p_last.index,
                                IF p_last.ok THEN <<>> ELSE p_last.arg, <<>>,
                                IF p_last.ok THEN <<>> ELSE <<p_last.op, p_last.err>>,
                                bytes)
    /\ UNCHANGED <<p_pc, p_inputs, p_request, p_change, p_built, checkpoint,
                   checkpoint_signed>>
    /\ UNCHANGED nonCoreVars

\* finalize_and_extract(pczt)
Finalize ==
    /\ p_pc = "built"
    /\ p_owned # <<>>
    /\ LET r == finalize_and_extract(p_owned[1])
       IN  p_last' = Call("finalize_and_extract", r.ok, r.err, 0, p_owned, p_signed, <<>>,
                          r.bytes)
    /\ p_owned' = <<>>
    /\ p_signed' = <<>>
    /\ UNCHANGED <<p_pc, p_inputs, p_request, p_change, p_built, checkpoint,
                   checkpoint_signed>>
    /\ UNCHANGED nonCoreVars

CoreNext ==
    \/ Propose
    \/ Verify
    \/ Prove
    \/ GetSighash
    \/ AppendSignature
    \/ Checkpoint
    \/ Parse
    \/ Finalize

(***************************************************************************)
(* The C boundary: ffi.rs.  A handle is the address of a boxed PCZT; it is *)
(* "live" from Box::into_raw until Box::from_raw takes the box back, and   *)
(* "freed" from then on.  Callers pass live handles or NULL, never a freed *)
(* one.  LAST_ERROR is thread-local: one slot per calling thread.          *)
(***************************************************************************)
\* the null pointer
NULL == 0

Handles == 1..MaxHandles

\* the threads that call the boundary
Threads == {"t1", "t2"}

\* the thread that makes the calls of SpecFfi
FfiCallers == {"t1"}

\* FfiError's text (error.rs:162-198), as the variant and its detail
FfiErrorText(variant, detail) == <<variant, detail>>

\* the buffer and the requests the boundary's callers propose with
FfiInputs == serialize_transparent_inputs(<<InputA>>)

FfiRequests ==
    {TransactionRequest(ps) : ps \in {<<>>, <<PayT1>>, <<PayU>>}}

\* a call of a boundary function: the PCZT handles passed in, the result
\* code and the handle written to the output pointer (NULL if none)
FfiCall(fn, thread, passed, rc, out) ==
    [fn |-> fn, thread |-> thread, passed |-> passed, rc |-> rc, out |-> out]

NoFfiCall == FfiCall("none", "t1", <<>>, "Success", NULL)

\* live handles, and what a caller may pass for a handle
LiveHandles == {h \in Handles : h_state[h] = "live"}

HandleArgs == LiveHandles \cup {NULL}

\* the address Box::into_raw returns: one that was never handed out
CanAllocate == \E h \in Handles : h_state[h] = "unallocated"

NewHandle == CHOOSE h \in Handles :
                /\ h_state[h] = "unallocated"
                /\ \A g \in Handles : h_state[g] = "unallocated" => h <= g

\* a set_last_error that writes one process-wide slot instead of the
\* calling thread's own
set_last_error_shared(thread, err) == [t \in DOMAIN last_error |-> <<err>>]

\* set_last_error (ffi.rs:66-70)
set_last_error(thread, err) == [last_error EXCEPT ![thread] = <<err>>]

FfiIdle ==
    /\ f_pc = "idle"
    /\ h_state = [h \in Handles |-> "unallocated"]
    /\ h_pczt = [h \in Handles |-> <<>>]
    /\ last_error = [t \in Threads |-> <<>>]
    /\ f_last = NoFfiCall
    /\ f_bytes = <<>>

FfiInit ==
    /\ f_pc = "run"
    /\ h_state = [h \in Handles |-> "unallocated"]
    /\ h_pczt = [h \in Handles |-> <<>>]
    /\ last_error = [t \in Threads |-> <<>>]
    /\ f_last = NoFfiCall
    /\ f_bytes = <<>>

\* a call that fails its null test (e.g. ffi.rs:263-266): nothing else happens
FfiNullPointer(fn, thread, passed) ==
    /\ last_error' = set_last_error(thread, FfiErrorText("NullPointer", ""))
    /\ f_last' = FfiCall(fn, thread, passed, "ErrorNullPointer", NULL)
    /\ UNCHANGED <<h_state, h_pczt, f_bytes>>

\* Box::from_raw(h) of a call that returns no PCZT (e.g. ffi.rs:268, 277-280)
FfiConsumeFailed(fn, thread, h, rc, err) ==
    /\ h_state' = [h_state EXCEPT ![h] = "freed"]
    /\ h_pczt' = [h_pczt EXCEPT ![h] = <<>>]
    /\ last_error' = set_last_error(thread, err)
    /\ f_last' = FfiCall(fn, thread, <<h>>, rc, NULL)
    /\ UNCHANGED f_bytes

\* Box::from_raw(h) and Box::into_raw of the returned PCZT (e.g. ffi.rs:268-275)
FfiConsumeReturn(fn, thread, h, pczt) ==
    /\ h_state' = [h_state EXCEPT ![h] = "freed", ![NewHandle] = "live"]
    /\ h_pczt' = [h_pczt EXCEPT ![h] = <<>>, ![NewHandle] = pczt]
    /\ f_last' = FfiCall(fn, thread, <<h>>, "Success", NewHandle)
    /\ UNCHANGED <<last_error, f_bytes>>

\* pczt_propose_transaction (ffi.rs:208-247), with no change address
pczt_propose_transaction(thread, inputs_null, request_null, out_null, request) ==
    /\ f_pc = "run"
    /\ CanAllocate
    /\ IF inputs_null \/ request_null \/ out_null
       THEN FfiNullPointer("pczt_propose_transaction", thread, <<>>)
       ELSE \E rejects \in {"none", "build_for_pczt"}, pad \in PadRules :
              LET r == propose_transaction(FfiInputs, request, NoAddress, rejects, pad)
              IN  IF r.ok
                  THEN /\ h_state' = [h_state EXCEPT ![NewHandle] = "live"]
                       /\ h_pczt' = [h_pczt EXCEPT ![NewHandle] = r.pczt]
                       /\ f_last' = FfiCall("pczt_propose_transaction", thread, <<>>,
                                            "Success", NewHandle)
                       /\ UNCHANGED <<last_error, f_bytes>>
                  ELSE /\ last_error' =
                              set_last_error(thread, FfiErrorText("Proposal", r.err))
                       /\ f_last' = FfiCall("pczt_propose_transaction", thread, <<>>,
                                            "ErrorProposal", NULL)
                       /\ UNCHANGED <<h_state, h_pczt, f_bytes>>
    /\ UNCHANGED f_pc
    /\ UNCHANGED nonFfiVars

\* pczt_prove_transaction (ffi.rs:259-281)
pczt_prove_transaction(thread, pczt, out_null) ==
    /\ f_pc = "run"
    /\ CanAllocate
    /\ IF pczt = NULL \/ out_null
       THEN FfiNullPointer("pczt_prove_transaction", thread, <<pczt>>)
       ELSE \E proof_ok \in BOOLEAN :
              LET r == prove_transaction(h_pczt[pczt][1], proof_ok)
              IN  IF r.ok
                  THEN FfiConsumeReturn("pczt_prove_transaction", thread, pczt, r.pczt)
                  ELSE FfiConsumeFailed("pczt_prove_transaction", thread, pczt,
                                        "ErrorProver", FfiErrorText("Prover", r.err))
    /\ UNCHANGED f_pc
    /\ UNCHANGED nonFfiVars

\* pczt_verify_before_signing (ffi.rs:285-357), with no expected change
pczt_verify_before_signing(thread, pczt, request_null, request) ==
    /\ f_pc = "run"
    /\ IF pczt = NULL \/ request_null
       THEN FfiNullPointer("pczt_verify_before_signing", thread, <<pczt>>)
       ELSE LET e == verify_before_signing(h_pczt[pczt][1], request, <<>>)
            IN  /\ last_error' = IF e = "" THEN last_error
                                 ELSE set_last_error(thread, FfiErrorText("Verification", e))
                /\ f_last' = FfiCall("pczt_verify_before_signing", thread, <<pczt>>,
                                     IF e = "" THEN "Success" ELSE "ErrorVerification", NULL)
                /\ UNCHANGED <<h_state, h_pczt, f_bytes>>
    /\ UNCHANGED f_pc
    /\ UNCHANGED nonFfiVars

\* pczt_get_sighash (ffi.rs:361-383)
pczt_get_sighash(thread, pczt, input_index, out_null) ==
    /\ f_pc = "run"
    /\ IF pczt = NULL \/ out_null
       THEN FfiNullPointer("pczt_get_sighash", thread, <<pczt>>)
       ELSE LET r == get_sighash(h_pczt[pczt][1], input_index)
            IN  /\ last_error' = IF r.ok THEN last_error
                                 ELSE set_last_error(thread, FfiErrorText("Sighash", r.err))
                /\ f_last' = FfiCall("pczt_get_sighash", thread, <<pczt>>,
                                     IF r.ok THEN "Success" ELSE "ErrorSighash", NULL)
                /\ UNCHANGED <<h_state, h_pczt, f_bytes>>
    /\ UNCHANGED f_pc
    /\ UNCHANGED nonFfiVars

\* pczt_append_signature (ffi.rs:395-420)
pczt_append_signature(thread, pczt, input_index, signature_null, signature, out_null) ==
    /\ f_pc = "run"
    /\ CanAllocate
    /\ IF pczt = NULL \/ signature_null \/ out_null
       THEN FfiNullPointer("pczt_append_signature", thread, <<pczt>>)
       ELSE LET r == append_signature(h_pczt[pczt][1], input_index, signature)
            IN  IF r.ok
                THEN FfiConsumeReturn("pczt_append_signature", thread, pczt, r.pczt)
                ELSE FfiConsumeFailed("pczt_append_signature", thread, pczt,
                                      "ErrorSignature", FfiErrorText("Signature", r.err))
    /\ UNCHANGED f_pc
    /\ UNCHANGED nonFfiVars

\* pczt_finalize_and_extract (ffi.rs:432-458)
pczt_finalize_and_extract(thread, pczt, bytes_out_null, len_out_null) ==
    /\ f_pc = "run"
    /\ IF pczt = NULL \/ bytes_out_null \/ len_out_null
       THEN FfiNullPointer("pczt_finalize_and_extract", thread, <<pczt>>)
       ELSE LET r == finalize_and_extract(h_pczt[pczt][1])
            IN  IF r.ok
                THEN /\ h_state' = [h_state EXCEPT ![pczt] = "freed"]
                     /\ h_pczt' = [h_pczt EXCEPT ![pczt] = <<>>]
                     /\ f_last' = FfiCall("pczt_finalize_and_extract", thread, <<pczt>>,
                                          "Success", NULL)
                     /\ UNCHANGED <<last_error, f_bytes>>
                ELSE FfiConsumeFailed("pczt_finalize_and_extract", thread, pczt,
                                      "ErrorFinalization",
                                      FfiErrorText("Finalization", r.err))
    /\ UNCHANGED f_pc
    /\ UNCHANGED nonFfiVars

\* pczt_parse (ffi.rs:462-485)
pczt_parse(thread, bytes_null, bytes, out_null) ==
    /\ f_pc = "run"
    /\ CanAllocate
    /\ IF bytes_null \/ out_null
       THEN FfiNullPointer("pczt_parse", thread, <<>>)
       ELSE LET r == parse_pczt(bytes)
            IN  IF r.ok
                THEN /\ h_state' = [h_state EXCEPT ![NewHandle] = "live"]
                     /\ h_pczt' = [h_pczt EXCEPT ![NewHandle] = r.pczt]
                     /\ f_last' = FfiCall("pczt_parse", thread, <<>>, "Success", NewHandle)
                     /\ UNCHANGED <<last_error, f_bytes>>
                ELSE /\ last_error' = set_last_error(thread, FfiErrorText("Parse", r.err))
                     /\ f_last' = FfiCall("pczt_parse", thread, <<>>, "ErrorParse", NULL)
                     /\ UNCHANGED <<h_state, h_pczt, f_bytes>>
    /\ UNCHANGED f_pc
    /\ UNCHANGED nonFfiVars

\* pczt_serialize (ffi.rs:489-509); the caller keeps the bytes
pczt_serialize(thread, pczt, bytes_out_null, len_out_null) ==
    /\ f_pc = "run"
    /\ IF pczt = NULL \/ bytes_out_null \/ len_out_null
       THEN FfiNullPointer("pczt_serialize", thread, <<pczt>>)
       ELSE /\ f_bytes' = serialize_pczt(h_pczt[pczt][1])
            /\ f_last' = FfiCall("pczt_serialize", thread, <<pczt>>, "Success", NULL)
            /\ UNCHANGED <<h_state, h_pczt, last_error>>
    /\ UNCHANGED f_pc
    /\ UNCHANGED nonFfiVars

\* the arrays of handles a caller may pass to pczt_combine: live handles,
\* none of them twice, and null entries
HandleArrays ==
    {<<>>}
        \cup {<<a>> : a \in HandleArgs}
        \cup {pair \in HandleArgs \X HandleArgs : pair[1] # pair[2] \/ pair[1] = NULL}

\* the position of the first null entry of an array of handles, 0 if none
first_null(ptrs) ==
    IF \E i \in 1..Len(ptrs) : ptrs[i] = NULL
    THEN CHOOSE i \in 1..Len(ptrs) :
             /\ ptrs[i] = NULL
             /\ \A j \in 1..(i - 1) : ptrs[j] # NULL
    ELSE 0

\* the handles the loop of pczt_combine has boxed back before it returns
\* (ffi.rs:549-556): all of them, or those before the first null entry
combine_taken(ptrs) ==
    IF first_null(ptrs) = 0 THEN {ptrs[i] : i \in 1..Len(ptrs)}
    ELSE {ptrs[i] : i \in 1..(first_null(ptrs) - 1)}

\* pczt_combine (ffi.rs:533-572)
pczt_combine(thread, array_null, ptrs, out_null) ==
    /\ f_pc = "run"
    /\ CanAllocate
    /\ IF array_null \/ out_null
       THEN FfiNullPointer("pczt_combine", thread, ptrs)
       ELSE IF Len(ptrs) = 0
       THEN /\ last_error' = set_last_error(thread, FfiErrorText("Combine", "NoPczts"))
            /\ f_last' = FfiCall("pczt_combine", thread, ptrs, "ErrorCombine", NULL)
            /\ UNCHANGED <<h_state, h_pczt, f_bytes>>
       ELSE IF first_null(ptrs) # 0
       THEN /\ h_state' = [h \in Handles |->
                              IF h \in combine_taken(ptrs) THEN "freed" ELSE h_state[h]]
            /\ h_pczt' = [h \in Handles |->
                             IF h \in combine_taken(ptrs) THEN <<>> ELSE h_pczt[h]]
            /\ last_error' = set_last_error(thread, FfiErrorText("NullPointer", ""))
            /\ f_last' = FfiCall("pczt_combine", thread, ptrs, "ErrorNullPointer", NULL)
            /\ UNCHANGED f_bytes
       ELSE LET r == combine([i \in 1..Len(ptrs) |-> h_pczt[ptrs[i]][1]])
            IN  IF r.ok
                THEN /\ h_state' = [h \in Handles |->
                                       IF h \in combine_taken(ptrs) THEN "freed"
                                       ELSE IF h = NewHandle THEN "live" ELSE h_state[h]]
                     /\ h_pczt' = [h \in Handles |->
                                      IF h \in combine_taken(ptrs) THEN <<>>
                                      ELSE IF h = NewHandle THEN r.pczt ELSE h_pczt[h]]
                     /\ f_last' = FfiCall("pczt_combine", thread, ptrs, "Success", NewHandle)
                     /\ UNCHANGED <<last_error, f_bytes>>
                ELSE /\ h_state' = [h \in Handles |->
                                       IF h \in combine_taken(ptrs) THEN "freed"
                                       ELSE h_state[h]]
                     /\ h_pczt' = [h \in Handles |->
                                      IF h \in combine_taken(ptrs) THEN <<>> ELSE h_pczt[h]]
                     /\ last_error' = set_last_error(thread, FfiErrorText("Combine", r.err))
                     /\ f_last' = FfiCall("pczt_combine", thread, ptrs, "ErrorCombine", NULL)
                     /\ UNCHANGED f_bytes
    /\ UNCHANGED f_pc
    /\ UNCHANGED nonFfiVars

\* pczt_free (ffi.rs:576-580)
pczt_free(thread, pczt) ==
    /\ f_pc = "run"
    /\ IF pczt # NULL
       THEN /\ h_state' = [h_state EXCEPT ![pczt] = "freed"]
            /\ h_pczt' = [h_pczt EXCEPT ![pczt] = <<>>]
       ELSE UNCHANGED <<h_state, h_pczt>>
    /\ f_last' = FfiCall("pczt_free", thread, <<pczt>>, "Success", NULL)
    /\ UNCHANGED <<last_error, f_bytes, f_pc>>
    /\ UNCHANGED nonFfiVars

\* the signatures a boundary caller signs with
FfiSignatures(pczt, input_index) ==
    IF pczt = NULL THEN {MalformedSignature}
    ELSE SignaturesFor(h_pczt[pczt][1], input_index)

FfiNext ==
    \/ \E t \in FfiCallers, i, q, o \in BOOLEAN, request \in FfiRequests :
          pczt_propose_transaction(t, i, q, o, request)
    \/ \E t \in FfiCallers, h \in HandleArgs, o \in BOOLEAN : pczt_prove_transaction(t, h, o)
    \/ \E t \in FfiCallers, h \in HandleArgs, q \in BOOLEAN, request \in FfiRequests :
          pczt_verify_before_signing(t, h, q, request)
    \/ \E t \in FfiCallers, h \in HandleArgs, i \in 0..1, o \in BOOLEAN :
          pczt_get_sighash(t, h, i, o)
    \/ \E t \in FfiCallers, h \in HandleArgs, i \in 0..1, s, o \in BOOLEAN :
       \E sig \in FfiSignatures(h, i) :
          pczt_append_signature(t, h, i, s, sig, o)
    \/ \E t \in FfiCallers, h \in HandleArgs, b, l \in BOOLEAN :
          pczt_finalize_and_extract(t, h, b, l)
    \/ \E t \in FfiCallers, n, o \in BOOLEAN, bytes \in {f_bytes, JunkBytes} :
          pczt_parse(t, n, bytes, o)
    \/ \E t \in FfiCallers, h \in HandleArgs, b, l \in BOOLEAN : pczt_serialize(t, h, b, l)
    \/ \E t \in FfiCallers, a, o \in BOOLEAN, ptrs \in HandleArrays :
          pczt_combine(t, a, ptrs, o)
    \/ \E t \in FfiCallers, h \in HandleArgs : pczt_free(t, h)



(***************************************************************************)
(* The thread-local last error read back: ffi.rs:61-102, on two threads.   *)
(***************************************************************************)
\* FfiError's Display (core/rust/src/error.rs:162-198) and that of the stage
\* error inside it (error.rs:5-159), which set_last_error stores
\* (ffi.rs:68); the Debug text of an error of an external crate stands as {:?}
to_string(err) ==
    CASE err = FfiErrorText("NullPointer", "") -> "Null pointer provided"
      [] err = FfiErrorText("Proposal", "InvalidRequest") ->
            "Proposal error: Invalid transaction request: No payments provided"
      [] err = FfiErrorText("Proposal", "PcztCreation") ->
            "Proposal error: PCZT creation error: Builder failed: {:?}"
      [] err = FfiErrorText("Sighash", "InvalidInputIndex") ->
            "Sighash error: Invalid input index: 1"
      [] err = FfiErrorText("Parse", "InvalidFormat") ->
            "Parse error: Invalid format: {:?}"
      [] OTHER -> err[1] \o " error: " \o err[2]

\* CString::new(err_msg) fails on a NUL inside the message (ffi.rs:84-87);
\* no text of error.rs has one, and Debug output escapes it
has_interior_nul(err_msg) == FALSE

\* the buffer lengths callers pass: none, one byte, the 2 and the 512 of the
\* tests (tests/ffi_test.rs:226-238, core tests/ffi_test.rs:159-193), and
\* the lengths around the 22 bytes of "Null pointer provided" with its NUL
BufferLens == {0, 1, 2, Len(to_string(FfiErrorText("NullPointer", ""))),
               Len(to_string(FfiErrorText("NullPointer", ""))) + 1, 512}

\* a call of pczt_get_last_error: `written` is <<>> when nothing was written
\* to the buffer, else <<s>> for the string s written with its NUL
LastErrorCall(thread, buffer_len, rc, written) ==
    [fn |-> "pczt_get_last_error", thread |-> thread, passed |-> <<>>, rc |-> rc,
     out |-> NULL, buffer_len |-> buffer_len, written |-> written]

\* pczt_get_last_error (ffi.rs:74-102); with no error set the NUL is written
\* whatever buffer_len is (l.98), which with buffer_len = 0 is a write past
\* the buffer: the call returns Success or the process dies
pczt_get_last_error(thread, buffer_null, buffer_len) ==
    /\ f_pc = "run"
    /\ IF buffer_null
       THEN /\ f_last' = LastErrorCall(thread, buffer_len, "ErrorNullPointer", <<>>)
            /\ UNCHANGED f_pc
       ELSE IF last_error[thread] # <<>>
       THEN LET err_msg == to_string(last_error[thread][1])
            IN  /\ f_last' =
                      IF has_interior_nul(err_msg)
                      THEN LastErrorCall(thread, buffer_len, "ErrorInvalidUtf8", <<>>)
                      ELSE IF Len(err_msg) + 1 > buffer_len
                      THEN LastErrorCall(thread, buffer_len, "ErrorBufferTooSmall", <<>>)
                      ELSE LastErrorCall(thread, buffer_len, "Success", <<err_msg>>)
                /\ UNCHANGED f_pc
       ELSE \/ /\ f_last' = LastErrorCall(thread, buffer_len, "Success", <<"">>)
               /\ UNCHANGED f_pc
            \/ /\ buffer_len = 0
               /\ f_pc' = "crashed"
               /\ UNCHANGED f_last
    /\ UNCHANGED <<h_state, h_pczt, last_error, f_bytes>>
    /\ UNCHANGED nonFfiVars

\* the calls of the two threads: stages that fail and stages that succeed,
\* and the message read back
LastErrorNext ==
    \/ \E t \in Threads, i, q, o \in BOOLEAN,
          request \in {TransactionRequest(<<>>), TransactionRequest(<<PayT1>>)} :
          pczt_propose_transaction(t, i, q, o, request)
    \/ \E t \in Threads, h \in HandleArgs, i \in 0..1, o \in BOOLEAN :
          pczt_get_sighash(t, h, i, o)
    \/ \E t \in Threads, n, o \in BOOLEAN : pczt_parse(t, n, JunkBytes, o)
    \/ \E t \in Threads, b \in BOOLEAN, buffer_len \in BufferLens :
          pczt_get_last_error(t, b, buffer_len)

(***************************************************************************)
(* The stages after the Builder applied to lists of PCZTs: every PCZT of   *)
(* the list is what propose_transaction built from s_inputs, carried       *)
(* through any of append_signature and prove_transaction, or a PCZT of     *)
(* another transaction (tests/test_remaining_apis.rs:81-108,               *)
(* tests/test_append_signature.rs).                                        *)
(***************************************************************************)
\* how many PCZTs one combine call is given
MaxCombine == 2

StageInputLists == {<<InputA>>, <<InputA, InputB>>, <<InputB, InputA>>}

StageRequests == {TransactionRequest(<<PayT1>>), TransactionRequest(<<PayT1, PayU>>)}

\* let pczt = propose_transaction(&serialize_transparent_inputs(&inputs), request, None)
StageBuilt(inputs, request) ==
    propose_transaction(serialize_transparent_inputs(inputs), request, NoAddress,
                        "none", "even").pczt[1]

\* the signature a signer holding the key of input `input_index` makes
StageSignature(pczt, input_index) ==
    ecdsa_sign(pczt.inputs[input_index + 1].pubkey, transparent_sighash(pczt, input_index))

\* append_signature for each index of S, in any order
RECURSIVE StageSigned(_, _)
StageSigned(pczt, S) ==
    IF S = {} THEN pczt
    ELSE LET i == CHOOSE i \in S : TRUE
         IN  StageSigned(append_signature(pczt, i, StageSignature(pczt, i)).pczt[1], S \ {i})

\* prove_transaction, when asked for
StageProved(pczt, proved) ==
    IF proved THEN prove_transaction(pczt, TRUE).pczt[1] ELSE pczt

\* a PCZT of another transaction
StageStranger == StageBuilt(<<InputA>>, TransactionRequest(<<PayT2>>))

\* the PCZTs parties working on one build can hold
StagePool(inputs, request) ==
    LET built == StageBuilt(inputs, request)
    IN  {StageProved(StageSigned(built, S), proved) :
            S \in SUBSET (0..(Len(inputs) - 1)), proved \in BOOLEAN} \cup {StageStranger}

StageCall(op, ok, err, index, out, bytes) ==
    [op |-> op, ok |-> ok, err |-> err, index |-> index, out |-> out, bytes |-> bytes]

StageInit ==
    /\ s_inputs \in StageInputLists
    /\ \E request \in StageRequests :
          s_list \in ListsUpTo(StagePool(s_inputs, request), MaxCombine)
    /\ s_last = <<>>
    /\ s_pc = "call"

\* combine(s_list), then serialize_pczt of what came back
StageCombine ==
    /\ s_pc = "call"
    /\ LET r == combine(s_list)
       IN  s_last' = StageCall("combine", r.ok, r.err, 0, r.pczt,
                               IF r.ok THEN serialize_pczt(r.pczt[1]) ELSE <<>>)
    /\ s_pc' = "done"
    /\ UNCHANGED <<s_inputs, s_list>>
    /\ UNCHANGED nonStageVars

\* prove_transaction(s_list[1])
StageProve ==
    /\ s_pc = "call"
    /\ s_list # <<>>
    /\ \E proof_ok \in BOOLEAN :
          LET r == prove_transaction(s_list[1], proof_ok)
          IN  s_last' = StageCall("prove_transaction", r.ok, r.err, 0, r.pczt,
                                  IF r.ok THEN serialize_pczt(r.pczt[1]) ELSE <<>>)
    /\ s_pc' = "done"
    /\ UNCHANGED <<s_inputs, s_list>>
    /\ UNCHANGED nonStageVars

\* append_signature(s_list[1], input_index, sig)
StageAppendSignature ==
    /\ s_pc = "call"
    /\ s_list # <<>>
    /\ \E input_index \in 0..Len(s_list[1].inputs) :
       \E sig \in SignaturesFor(s_list[1], input_index) :
          LET r == append_signature(s_list[1], input_index, sig)
          IN  s_last' = StageCall("append_signature", r.ok, r.err, input_index, r.pczt,
                                  IF r.ok THEN serialize_pczt(r.pczt[1]) ELSE <<>>)
    /\ s_pc' = "done"
    /\ UNCHANGED <<s_inputs, s_list>>
    /\ UNCHANGED nonStageVars

StageNext == StageCombine \/ StageProve \/ StageAppendSignature

(***************************************************************************)
(* Concurrent prove_transaction calls: lib.rs:302-326.  The proving key is *)
(* a function-local static OnceLock (l.308), so one cell serves every call *)
(* of the process; get_or_init (l.314-317) is std's: the caller that finds *)
(* the cell empty runs the closure, callers that find it running wait, and *)
(* callers that find it complete take the value.                           *)
(***************************************************************************)
\* how many threads call prove_transaction
MaxProvers == 3

Provers == 1..MaxProvers

\* a lazy initialisation without the Once: whoever finds no value builds one
get_or_init_unsynchronized(state) ==
    IF state = "complete" THEN "take" ELSE "build"

\* OnceLock::get_or_init (lib.rs:314): what a caller does on finding the
\* cell in `state`
get_or_init(state) ==
    CASE state = "complete" -> "take"
      [] state = "uninit" -> "build"
      [] state = "running" -> "wait"

\* the PCZTs the callers hold: one without and one with shielded actions
OncePczts ==
    {StageBuilt(<<InputA>>, TransactionRequest(<<PayT1>>)),
     StageBuilt(<<InputA>>, TransactionRequest(<<PayT1, PayU>>))}

\* a call of prove_transaction: the PCZT it took and, once it has returned,
\* its result
ProveCall(arg, returned, result) ==
    [arg |-> arg, returned |-> returned, result |-> result]

NoProveResult == [ok |-> FALSE, err |-> "", pczt |-> <<>>]

OnceInit ==
    /\ o_lock = [state |-> "uninit", key |-> 0]
    /\ o_builds = 0
    /\ o_pc = [t \in Provers |-> "idle"]
    /\ o_key = [t \in Provers |-> 0]
    /\ o_owned \in [Provers -> {<<pczt>> : pczt \in OncePczts}]
    /\ o_call = [t \in Provers |-> ProveCall(<<>>, FALSE, NoProveResult)]

\* prove_transaction(pczt) is entered: Prover::new and requires_orchard_proof
\* (lib.rs:310-313); a PCZT without actions is returned as it is (l.322-325)
ProverCall(t) ==
    /\ o_pc[t] = "idle"
    /\ o_owned[t] # <<>>
    /\ o_owned' = [o_owned EXCEPT ![t] = <<>>]
    /\ LET pczt == o_owned[t][1]
       IN  IF requires_orchard_proof(pczt)
           THEN /\ o_pc' = [o_pc EXCEPT ![t] = "get_or_init"]
                /\ o_call' = [o_call EXCEPT ![t] = ProveCall(<<pczt>>, FALSE, NoProveResult)]
           ELSE /\ o_pc' = [o_pc EXCEPT ![t] = "returned_as_is"]
                /\ o_call' = [o_call EXCEPT ![t] =
                                 ProveCall(<<pczt>>, TRUE, prove_transaction(pczt, TRUE))]
    /\ UNCHANGED <<o_lock, o_builds, o_key>>
    /\ UNCHANGED nonOnceVars

\* ORCHARD_PROVING_KEY.get_or_init is reached (lib.rs:314)
ProverArrive(t) ==
    /\ o_pc[t] = "get_or_init"
    /\ UNCHANGED <<o_owned, o_call>>
    /\ LET todo == get_or_init(o_lock.state)
       IN  \/ /\ todo = "take"
              /\ o_pc' = [o_pc EXCEPT ![t] = "proving"]
              /\ o_key' = [o_key EXCEPT ![t] = o_lock.key]
              /\ UNCHANGED <<o_lock, o_builds>>
           \/ /\ todo = "build"
              /\ o_pc' = [o_pc EXCEPT ![t] = "building"]
              /\ o_lock' = [o_lock EXCEPT !.state = "running"]
              /\ o_builds' = o_builds + 1
              /\ o_key' = [o_key EXCEPT ![t] = o_builds + 1]
           \/ /\ todo = "wait"
              /\ o_pc' = [o_pc EXCEPT ![t] = "waiting"]
              /\ UNCHANGED <<o_lock, o_builds, o_key>>
    /\ UNCHANGED nonOnceVars

\* ProvingKey::build() returns (lib.rs:316) and the cell takes the key;
\* o_key[t] is the key this caller has built
ProverBuilt(t) ==
    /\ o_pc[t] = "building"
    /\ o_lock' = [state |-> "complete", key |-> o_key[t]]
    /\ o_pc' = [o_pc EXCEPT ![t] = "proving"]
    /\ UNCHANGED <<o_builds, o_key, o_owned, o_call>>
    /\ UNCHANGED nonOnceVars

\* a caller that waited inside get_or_init is released once the cell is complete
ProverWake(t) ==
    /\ o_pc[t] = "waiting"
    /\ o_lock.state = "complete"
    /\ o_pc' = [o_pc EXCEPT ![t] = "proving"]
    /\ o_key' = [o_key EXCEPT ![t] = o_lock.key]
    /\ UNCHANGED <<o_lock, o_builds, o_owned, o_call>>
    /\ UNCHANGED nonOnceVars

\* create_orchard_proof(proving_key) and finish (lib.rs:319-322)
ProverReturn(t) ==
    /\ o_pc[t] = "proving"
    /\ \E proof_ok \in BOOLEAN :
          LET r == prove_transaction(o_call[t].arg[1], proof_ok)
          IN  /\ o_pc' = [o_pc EXCEPT ![t] = IF r.ok THEN "returned_ok" ELSE "returned_err"]
              /\ o_call' = [o_call EXCEPT ![t] = ProveCall(o_call[t].arg, TRUE, r)]
    /\ UNCHANGED <<o_lock, o_builds, o_key, o_owned>>
    /\ UNCHANGED nonOnceVars

\* what a thread does once it is inside prove_transaction
ProverStep(t) == ProverArrive(t) \/ ProverBuilt(t) \/ ProverWake(t) \/ ProverReturn(t)

OnceNext ==
    \/ \E t \in Provers : ProverCall(t)
    \/ \E t \in Provers : ProverArrive(t)
    \/ \E t \in Provers : ProverBuilt(t)
    \/ \E t \in Provers : ProverWake(t)
    \/ \E t \in Provers : ProverReturn(t)

(***************************************************************************)
(* verify_before_signing applied to bounded PCZTs, requests and expected   *)
(* change: lib.rs:432-501.  The PCZTs are those propose_transaction makes  *)
(* of one input and PCZTs whose outputs differ from what was requested.    *)
(***************************************************************************)
\* how many transparent outputs a PCZT handed to verify has
MaxVerifyOutputs == 2

\* how many entries expected_change has
MaxExpectedChange == 2

\* the change propose_transaction leaves of InputA after PayT1 and the fee
\* of one input and two outputs (lib.rs:218-232)
ChangeOfPayT1 ==
    pczt_output(p2pkh_script(hash160(InputA.pubkey)),
                InputA.amount - PayT1.amount - calculate_fee(1, 2, 0))

\* an output to the address of PayT2 that is just short of twice PayT1
NearlyPayT1 == pczt_output(address_script(AddrT2), PayT1.amount - (PayT1.amount \div 100))

VerifyOutputs ==
    {pczt_output(address_script(PayT1.address), PayT1.amount),
     pczt_output(address_script(PayT2.address), PayT2.amount),
     NearlyPayT1,
     ChangeOfPayT1}

\* the Orchard bundle of a PCZT with one shielded payment
VerifyActions == {<<>>, orchard_actions_of(<<PayU>>, "even")}

VerifyPczts ==
    {[inputs |-> pczt_inputs(<<InputA>>), outputs |-> outputs, actions |-> actions,
      proof |-> FALSE] :
        outputs \in ListsUpTo(VerifyOutputs, MaxVerifyOutputs), actions \in VerifyActions}

VerifyRequests ==
    {TransactionRequest(ps) :
        ps \in {<<PayT1>>, <<PayT1, PayT2>>, <<PayT1, PayT1>>, <<PayU>>, <<PayT1, PayU>>,
                <<PayGarbage>>}}

\* what callers expect as change: an output of the PCZT or one nobody added
VerifyChanges ==
    {TxOut(ChangeOfPayT1.value, ChangeOfPayT1.script_pubkey),
     TxOut(PayT2.amount, address_script(PayT2.address))} \cup
    {StrangerChange[1]}

VerifyInit ==
    /\ v_pczt \in VerifyPczts
    /\ v_request \in VerifyRequests
    /\ v_change \in ListsUpTo(VerifyChanges, MaxExpectedChange)
    /\ v_result = ""
    /\ v_pc = "call"

\* verify_before_signing(&v_pczt, &v_request, &v_change)
VerifyCall ==
    /\ v_pc = "call"
    /\ v_result' = verify_before_signing(v_pczt, v_request, v_change)
    /\ v_pc' = "done"
    /\ UNCHANGED <<v_pczt, v_request, v_change>>
    /\ UNCHANGED nonVerifyVars

VerifyNext == VerifyCall

(***************************************************************************)
(* Components that take no part in a specification stay idle.              *)
(***************************************************************************)
StageIdle ==
    /\ s_inputs = <<>>
    /\ s_list = <<>>
    /\ s_last = <<>>
    /\ s_pc = "idle"

OnceIdle ==
    /\ o_lock = [state |-> "uninit", key |-> 0]
    /\ o_builds = 0
    /\ o_pc = <<>>
    /\ o_key = <<>>
    /\ o_owned = <<>>
    /\ o_call = <<>>

VerifyIdle ==
    /\ v_pczt = <<>>
    /\ v_request = <<>>
    /\ v_change = <<>>
    /\ v_result = ""
    /\ v_pc = "idle"

(***************************************************************************)
(* The PCZT wrapper of the TypeScript binding: typescript/src/lib.rs       *)
(* 312-347 and the functions that take a wrapper.  A wrapper holds a raw   *)
(* handle of the native library; the native functions are those of         *)
(* ffi.rs.                                                                 *)
(***************************************************************************)
\* how many wrappers the script makes
MaxWrappers == 3

Wrappers == 1..MaxWrappers

\* a call of the binding: the wrapper it was given, the handle the wrapper
\* held, the handles it passed to the native function (<<>> when the native
\* function was not called), whether it returned Ok, and the wrapper it returned
WrapperCall(fn, wrapper, held, passed, ok, out) ==
    [fn |-> fn, wrapper |-> wrapper, held |-> held, passed |-> passed, ok |-> ok,
     out |-> out]

NoWrapperCall == WrapperCall("none", 0, NULL, <<>>, TRUE, 0)

WrapperIdle ==
    /\ w_state = <<>>
    /\ w_handle = <<>>
    /\ n_state = <<>>
    /\ n_taken = <<>>
    /\ w_last = NoWrapperCall

WrapperInit ==
    /\ w_state = [w \in Wrappers |-> "none"]
    /\ w_handle = [w \in Wrappers |-> NULL]
    /\ n_state = [h \in Wrappers |-> "unallocated"]
    /\ n_taken = [h \in Wrappers |-> 0]
    /\ w_last = NoWrapperCall

\* a wrapper the script has not made yet, and the address Box::into_raw
\* returns for the PCZT it will hold
CanWrap ==
    /\ \E w \in Wrappers : w_state[w] = "none"
    /\ \E h \in Wrappers : n_state[h] = "unallocated"

NewWrapper == CHOOSE w \in Wrappers :
                 /\ w_state[w] = "none"
                 /\ \A x \in Wrappers : w_state[x] = "none" => w <= x

NewNative == CHOOSE h \in Wrappers :
                /\ n_state[h] = "unallocated"
                /\ \A g \in Wrappers : n_state[g] = "unallocated" => h <= g

\* a take_handle that leaves the handle in the wrapper
take_handle_copied(handle) == [taken |-> handle, kept |-> handle]

\* PCZT::take_handle (typescript/src/lib.rs:336-340): what the caller gets
\* and what the wrapper holds afterwards
take_handle(handle) == [taken |-> handle, kept |-> NULL]

\* Box::from_raw(h) in a consuming native function or in pczt_free
\* (ffi.rs:268, 406, 442, 578)
box_from_raw(h) ==
    /\ n_state' = [n_state EXCEPT ![h] = "freed"]
    /\ n_taken' = [n_taken EXCEPT ![h] = IF @ = 0 THEN 1 ELSE 2]

\* propose_transaction, propose_transaction_with_change and parse of the
\* binding return PCZT::from_handle of the handle the native call wrote
\* (typescript/src/lib.rs:400-461, 666-684)
WCreate ==
    /\ CanWrap
    /\ w_state' = [w_state EXCEPT ![NewWrapper] = "alive"]
    /\ w_handle' = [w_handle EXCEPT ![NewWrapper] = NewNative]
    /\ n_state' = [n_state EXCEPT ![NewNative] = "live"]
    /\ w_last' = WrapperCall("propose_transaction", 0, NULL, <<>>, TRUE, NewWrapper)
    /\ UNCHANGED n_taken
    /\ UNCHANGED nonWrapperVars

\* a function of the binding that takes the wrapper's handle and passes it
\* to a consuming native function: the native function fails its null test
\* for NULL (ffi.rs:263-266, 401-404, 437-440) and else takes the PCZT out of
\* the handle, whatever it returns; `returns_pczt` is whether success makes
\* a new wrapper (prove_transaction, append_signature) or bytes
\* (finalize_and_extract)
WConsume(fn, w, returns_pczt) ==
    LET t == take_handle(w_handle[w])
    IN  IF t.taken = NULL
        THEN /\ w_handle' = [w_handle EXCEPT ![w] = t.kept]
             /\ w_last' = WrapperCall(fn, w, w_handle[w], <<NULL>>, FALSE, 0)
             /\ UNCHANGED <<w_state, n_state, n_taken>>
        ELSE \/ /\ returns_pczt
                /\ CanWrap
                /\ w_state' = [w_state EXCEPT ![NewWrapper] = "alive"]
                /\ w_handle' = [w_handle EXCEPT ![w] = t.kept, ![NewWrapper] = NewNative]
                /\ n_state' = [n_state EXCEPT ![t.taken] = "freed", ![NewNative] = "live"]
                /\ n_taken' = [n_taken EXCEPT ![t.taken] = IF @ = 0 THEN 1 ELSE 2]
                /\ w_last' = WrapperCall(fn, w, w_handle[w], <<t.taken>>, TRUE, NewWrapper)
             \/ /\ ~returns_pczt
                /\ box_from_raw(t.taken)
                /\ w_handle' = [w_handle EXCEPT ![w] = t.kept]
                /\ w_last' = WrapperCall(fn, w, w_handle[w], <<t.taken>>, TRUE, 0)
                /\ UNCHANGED w_state
             \/ /\ box_from_raw(t.taken)
                /\ w_handle' = [w_handle EXCEPT ![w] = t.kept]
                /\ w_last' = WrapperCall(fn, w, w_handle[w], <<t.taken>>, FALSE, 0)
                /\ UNCHANGED w_state

\* prove_transaction(pczt) (typescript/src/lib.rs:465-483)
WProve(w) ==
    /\ w_state[w] = "alive"
    /\ WConsume("prove_transaction", w, TRUE)
    /\ UNCHANGED nonWrapperVars

\* the lengths of the signature buffers the script passes
SignatureLens == {63, 64}

\* append_signature(pczt, index, signature) (typescript/src/lib.rs:563-596):
\* a signature that is not 64 bytes long is refused before the handle is taken
WAppendSignature(w) ==
    /\ w_state[w] = "alive"
    /\ \E len \in SignatureLens :
          IF len # 64
          THEN /\ w_last' = WrapperCall("append_signature", w, w_handle[w], <<>>, FALSE, 0)
               /\ UNCHANGED <<w_state, w_handle, n_state, n_taken>>
          ELSE WConsume("append_signature", w, TRUE)
    /\ UNCHANGED nonWrapperVars

\* finalize_and_extract(pczt) (typescript/src/lib.rs:606-636)
WFinalize(w) ==
    /\ w_state[w] = "alive"
    /\ WConsume("finalize_and_extract", w, FALSE)
    /\ UNCHANGED nonWrapperVars

\* serialize(pczt) (typescript/src/lib.rs:639-663) passes the handle without
\* taking it; pczt_serialize fails its null test for NULL
WSerialize(w) ==
    /\ w_state[w] = "alive"
    /\ w_last' = WrapperCall("serialize", w, w_handle[w], <<w_handle[w]>>,
                             w_handle[w] # NULL, 0)
    /\ UNCHANGED <<w_state, w_handle, n_state, n_taken>>
    /\ UNCHANGED nonWrapperVars

\* PCZT::free (typescript/src/lib.rs:323-330) and pczt_free (ffi.rs:576-580)
free(fn, w) ==
    IF w_handle[w] # NULL
    THEN /\ box_from_raw(w_handle[w])
         /\ w_handle' = [w_handle EXCEPT ![w] = NULL]
         /\ w_last' = WrapperCall(fn, w, w_handle[w], <<w_handle[w]>>, TRUE, 0)
    ELSE /\ w_last' = WrapperCall(fn, w, w_handle[w], <<>>, TRUE, 0)
         /\ UNCHANGED <<w_handle, n_state, n_taken>>

\* pczt.free() called by the script
WFree(w) ==
    /\ w_state[w] = "alive"
    /\ free("free", w)
    /\ UNCHANGED w_state
    /\ UNCHANGED nonWrapperVars

\* the wrapper is collected: Drop calls free (typescript/src/lib.rs:343-347)
WDrop(w) ==
    /\ w_state[w] = "alive"
    /\ free("drop", w)
    /\ w_state' = [w_state EXCEPT ![w] = "dropped"]
    /\ UNCHANGED nonWrapperVars

WrapperNext ==
    \/ WCreate
    \/ \E w \in Wrappers : WProve(w)
    \/ \E w \in Wrappers : WAppendSignature(w)
    \/ \E w \in Wrappers : WFinalize(w)
    \/ \E w \in Wrappers : WSerialize(w)
    \/ \E w \in Wrappers : WFree(w)
    \/ \E w \in Wrappers : WDrop(w)

(***************************************************************************)
(* The specifications.                                                     *)
(***************************************************************************)
SpecFeeInit == FeeInit /\ CodecIdle /\ CoreIdle /\ FfiIdle /\ StageIdle /\ OnceIdle /\ VerifyIdle
    /\ WrapperIdle

SpecFee == SpecFeeInit /\ [][FeeNext]_vars

SpecCodecInit == CodecInit /\ FeeIdle /\ CoreIdle /\ FfiIdle /\ StageIdle /\ OnceIdle /\ VerifyIdle
    /\ WrapperIdle

SpecCodec == SpecCodecInit /\ [][CodecNext]_vars

SpecInit == CoreInit /\ FeeIdle /\ CodecIdle /\ FfiIdle /\ StageIdle /\ OnceIdle /\ VerifyIdle
    /\ WrapperIdle

Spec == SpecInit /\ [][CoreNext]_vars

SpecFfiInit == FfiInit /\ FeeIdle /\ CodecIdle /\ CoreIdle /\ StageIdle /\ OnceIdle /\ VerifyIdle
    /\ WrapperIdle

SpecFfi == SpecFfiInit /\ [][FfiNext]_vars

SpecLastErrorInit == FfiInit /\ FeeIdle /\ CodecIdle /\ CoreIdle /\ StageIdle /\ OnceIdle /\ VerifyIdle
    /\ WrapperIdle

SpecLastError == SpecLastErrorInit /\ [][LastErrorNext]_vars

SpecStagesInit == StageInit /\ FeeIdle /\ CodecIdle /\ CoreIdle /\ FfiIdle /\ OnceIdle /\ VerifyIdle
    /\ WrapperIdle

SpecStages == SpecStagesInit /\ [][StageNext]_vars

SpecProversInit == OnceInit /\ FeeIdle /\ CodecIdle /\ CoreIdle /\ FfiIdle /\ StageIdle /\ VerifyIdle
    /\ WrapperIdle

SpecVerifyInit == VerifyInit /\ FeeIdle /\ CodecIdle /\ CoreIdle /\ FfiIdle /\ StageIdle /\ OnceIdle
    /\ WrapperIdle

SpecVerify == SpecVerifyInit /\ [][VerifyNext]_vars

SpecProvers == SpecProversInit /\ [][OnceNext]_vars

SpecWrapperInit == WrapperInit /\ FeeIdle /\ CodecIdle /\ CoreIdle /\ FfiIdle /\ StageIdle
    /\ OnceIdle /\ VerifyIdle

SpecWrapper == SpecWrapperInit /\ [][WrapperNext]_vars

\* every thread inside prove_transaction is scheduled again, ProvingKey::build
\* and create_orchard_proof return, and a waiting caller is released once the
\* cell is complete
SpecProversFair ==
    SpecProversInit /\ [][OnceNext]_vars /\ \A t \in Provers : WF_vars(ProverStep(t))

(***************************************************************************)
(* Claims about the fee calculator (checked under SpecFee).                *)
(***************************************************************************)
\* the spec's padding of a shielded-output count: ceil(n / 2) * 2
CeilHalfTimesTwo(n) == IF n % 2 = 0 THEN n ELSE n + 1

\* the spec's logical-action count
SpecLogical(n_in, n_out, n_sh) ==
    IF n_sh > 0 THEN Max(n_in, n_out) + CeilHalfTimesTwo(n_sh) ELSE Max(n_in, n_out)

\* C1: for every triple of counts, calculate_fee returns 5000 * max(2, logical)
\* with logical = max(n_in, n_out) + ceil(n_sh/2)*2 when n_sh > 0 and
\* max(n_in, n_out) otherwise; (0,0,0) and (1,2,0) give 10000, (1,1,1) gives
\* 15000, and the result is never below 10000.
C1_FeeFormula ==
    fee_pc = "done" =>
        /\ fee = 5000 * Max(2, SpecLogical(num_transparent_inputs,
                                           num_transparent_outputs,
                                           num_orchard_outputs))
        /\ fee >= 10000
        /\ (<<num_transparent_inputs, num_transparent_outputs, num_orchard_outputs>>
                = <<0, 0, 0>> => fee = 10000)
        /\ (<<num_transparent_inputs, num_transparent_outputs, num_orchard_outputs>>
                = <<1, 2, 0>> => fee = 10000)
        /\ (<<num_transparent_inputs, num_transparent_outputs, num_orchard_outputs>>
                = <<1, 1, 1>> => fee = 15000)

\* C1 witness: calculate_fee(1, 1, 1) has returned 15000
C1_Witness ==
    /\ fee_pc = "done"
    /\ <<num_transparent_inputs, num_transparent_outputs, num_orchard_outputs>> = <<1, 1, 1>>
    /\ fee = 15000

\* C2 as stated: for every even k >= 2, calculate_fee(1,1,k) = calculate_fee(1,1,k+1)
C2_PaddingEvenOriginal ==
    (/\ fee_pc = "done"
     /\ num_transparent_inputs = 1
     /\ num_transparent_outputs = 1
     /\ num_orchard_outputs >= 2
     /\ num_orchard_outputs % 2 = 0)
        => fee = calculate_fee(1, 1, num_orchard_outputs + 1)

\* C2 amended: padding joins an odd count with the even count above it: for
\* every odd k >= 1, calculate_fee(1,1,k) = calculate_fee(1,1,k+1), while for
\* every even k >= 2 calculate_fee(1,1,k+1) = calculate_fee(1,1,k) + 10000.
C2_PaddingOdd ==
    (/\ fee_pc = "done"
     /\ num_transparent_inputs = 1
     /\ num_transparent_outputs = 1
     /\ num_orchard_outputs >= 1)
        => IF num_orchard_outputs % 2 = 1
           THEN fee = calculate_fee(1, 1, num_orchard_outputs + 1)
           ELSE fee + 10000 = calculate_fee(1, 1, num_orchard_outputs + 1)

\* C2 witness: calculate_fee(1, 1, 3) has returned the fee of four padded actions
C2_Witness ==
    /\ fee_pc = "done"
    /\ <<num_transparent_inputs, num_transparent_outputs, num_orchard_outputs>> = <<1, 1, 3>>
    /\ fee = 25000

(***************************************************************************)
(* Claims about the codec (checked under SpecCodec).                       *)
(***************************************************************************)
\* C6: codec round-trip: for every ordered list of TransparentInput with
\* valid compressed public keys, parse(serialize(list)) succeeds and returns
\* the same list, field by field and in the same order.
C6_RoundTrip ==
    (c_pc \in {"parsed", "reserialized"} /\ ~c_mutated) =>
        /\ c_result.ok
        /\ Len(c_result.inputs) = Len(c_inputs)
        /\ \A i \in 1..Len(c_inputs) :
              /\ c_result.inputs[i].pubkey = c_inputs[i].pubkey
              /\ c_result.inputs[i].txid = c_inputs[i].txid
              /\ c_result.inputs[i].vout = c_inputs[i].vout
              /\ c_result.inputs[i].amount = c_inputs[i].amount
              /\ c_result.inputs[i].script_pubkey = c_inputs[i].script_pubkey

\* C6 witness: a two-input list with a multi-byte vout, a multi-byte amount
\* and P2PKH scripts has been serialized and parsed back
C6_Witness ==
    /\ c_pc = "parsed" /\ ~c_mutated
    /\ c_inputs = <<InputA, InputB>>
    /\ c_result.ok

\* C7 as stated: for every buffer parse accepts, serialize(parse(buffer)) is
\* byte-identical to the buffer
C7_InverseOriginal ==
    c_pc = "reserialized" => c_out = c_data

\* C7 amended: for every buffer parse accepts, serialize(parse(buffer)) is
\* the two-byte count followed by exactly the bytes parse read for the
\* declared inputs: it is byte-identical to the buffer when the buffer is not
\* empty and no byte follows the last declared input; for the empty buffer it
\* is the count 00 00, and bytes after the last declared input are dropped.
C7_InverseOfReadPrefix ==
    c_pc = "reserialized" =>
        /\ c_data # <<>> => c_out = SubSeq(c_data, 1, c_result.offset)
        /\ (c_data # <<>> /\ c_result.offset = Len(c_data)) => c_out = c_data
        /\ c_data = <<>> => c_out = <<0, 0>>

\* C7 witness: a parsed two-input buffer with a trailing byte was re-serialized
C7_Witness ==
    /\ c_pc = "reserialized"
    /\ Len(c_result.inputs) = 2
    /\ Len(c_data) = c_result.offset + 1

\* the fields of one serialized input that starts after `start` bytes, in
\* the order of the format (types.rs:62-70), each with the offset of its end
FieldEnds(input, start) ==
    << [field |-> "pubkey", end |-> start + 33],
       [field |-> "txid", end |-> start + 65],
       [field |-> "vout", end |-> start + 69],
       [field |-> "amount", end |-> start + 77],
       [field |-> "script length", end |-> start + 79],
       [field |-> "script data", end |-> start + 79 + Len(input.script_pubkey)] >>

\* the first field of the serialized inputs, from input i on, that does not
\* end within the first n bytes, and the zero-based index of its input
RECURSIVE FirstOverrun(_, _, _, _)
FirstOverrun(inputs, i, start, n) ==
    IF i > Len(inputs) THEN [field |-> "none", index |-> 0]
    ELSE LET ends == FieldEnds(inputs[i], start)
             over == {k \in 1..6 : ends[k].end > n}
         IN  IF over # {}
             THEN [field |-> ends[CHOOSE k \in over : \A j \in over : k <= j].field,
                   index |-> i - 1]
             ELSE FirstOverrun(inputs, i + 1, ends[6].end, n)

\* the buffer parsed is the first bytes of the serialized list, cut short
ParsedTruncated ==
    /\ c_pc \in {"parsed", "reserialized"}
    /\ c_mutated
    /\ Len(c_data) < 2 + Len(serialize_from(c_inputs, 1))

\* the buffer parsed is the serialized list with one public key altered
ParsedBadPubkey ==
    /\ c_pc \in {"parsed", "reserialized"}
    /\ c_mutated
    /\ Len(c_data) = 2 + Len(serialize_from(c_inputs, 1))

\* the zero-based index of the input whose public key was altered
BadPubkeyIndex ==
    CHOOSE i \in 0..(Len(c_inputs) - 1) :
        LET start == 2 + Len(serialize_from(SubSeq(c_inputs, 1, i), 1))
        IN  SubSeq(c_data, start + 1, start + PUBKEY_LEN) # pubkey_serialize(c_inputs[i + 1].pubkey)

\* parse of the empty buffer is the empty list; a failed parse returns no
\* list; a buffer cut short fails at the first field that does not fit, and
\* an altered public key fails at its input
ParseFailsAtFirstField ==
    /\ (c_pc \in {"parsed", "reserialized"} /\ c_data = <<>>) =>
           c_result.ok /\ c_result.inputs = <<>>
    /\ (c_pc \in {"parsed", "reserialized"} /\ ~c_result.ok) => c_result.inputs = <<>>
    /\ (ParsedTruncated /\ Len(c_data) = 1) =>
           ~c_result.ok /\ c_result.field = "header"
    /\ (ParsedTruncated /\ Len(c_data) >= 2) =>
           LET first == FirstOverrun(c_inputs, 1, 2, Len(c_data))
           IN  /\ ~c_result.ok
               /\ c_result.field = first.field
               /\ c_result.index = first.index
    /\ ParsedBadPubkey =>
           /\ ~c_result.ok
           /\ c_result.field = "invalid pubkey"
           /\ c_result.index = BadPubkeyIndex

\* C24 as stated: parse of an empty buffer returns the empty list without
\* error; otherwise parse fails at the first field that overruns the buffer,
\* or at a public key that is not a valid compressed point, with an error
\* that names that field and the input index, and returns no partial list.
C24_ErrorNamesFieldAndIndex ==
    /\ ParseFailsAtFirstField
    /\ (c_pc \in {"parsed", "reserialized"} /\ ~c_result.ok) =>
           parse_error_message(c_result.field, c_result.index).args = <<c_result.index>>

\* C24, amended: as above, but a one-byte buffer, too short for the count,
\* fails with an error that names the header and no input index.
C24_ParseErrors ==
    /\ ParseFailsAtFirstField
    /\ (c_pc \in {"parsed", "reserialized"} /\ ~c_result.ok) =>
           LET message == parse_error_message(c_result.field, c_result.index)
           IN  IF c_result.field = "header"
               THEN message.args = <<>> /\ Len(c_data) = 1
               ELSE message.args = <<c_result.index>>

\* C24 witness: a two-input buffer cut within the amount of the second
\* input was parsed and refused at that field of input 1
C24_Witness ==
    /\ c_pc = "parsed"
    /\ c_inputs = <<InputA, InputB>>
    /\ ~c_result.ok
    /\ c_result.field = "amount"
    /\ c_result.index = 1

(***************************************************************************)
(* Claims about the proposal: lib.rs:126-288.                              *)
(***************************************************************************)
\* the inputs the proposal was built of
BuiltInputs == parse_transparent_inputs(p_inputs).inputs

\* the number of payments of the request to a transparent address
NumTransparentPayments ==
    Cardinality({i \in 1..Len(p_request.payments) :
                    decode_address(p_request.payments[i].address).kind = "p2pkh"})

\* the number of payments of the request to a shielded address
NumShieldedPayments == Len(p_request.payments) - NumTransparentPayments

\* the fee estimate as the proposal balance states it
BalanceEstimate ==
    calculate_fee(Len(BuiltInputs), NumTransparentPayments + 1, NumShieldedPayments)

\* what the inputs hold beyond the payments and the estimate
BalanceRemainder == sum_amounts(BuiltInputs) - total_amount(p_request) - BalanceEstimate

\* the value of the PCZT's Orchard outputs
RECURSIVE sum_action_values(_)
sum_action_values(s) == IF s = <<>> THEN 0 ELSE Head(s).value + sum_action_values(Tail(s))

\* C4: for every successful build, with estimated_fee = calculate_fee(number
\* of inputs, number of transparent payments + 1, number of shielded
\* payments): if total_in > total_out + estimated_fee the PCZT holds the
\* payment outputs and exactly one more transparent output, valued
\* total_in - total_out - estimated_fee, so that the fee paid is the
\* estimate; otherwise it holds the payment outputs and no change output.
C4_ProposalBalance ==
    p_built # <<>> =>
        LET outs == p_built[1].outputs
            tp == NumTransparentPayments
        IN  /\ SubSeq(outs, 1, tp) = payment_outputs_of(p_request.payments)
            /\ IF BalanceRemainder > 0
               THEN /\ Len(outs) = tp + 1
                    /\ outs[tp + 1].value = BalanceRemainder
                    /\ sum_amounts(BuiltInputs) - sum_values(outs)
                           - sum_action_values(p_built[1].actions) = BalanceEstimate
               ELSE Len(outs) = tp

\* a build of one input and two transparent payments, whose estimate counts
\* three outputs, and a build that adds no change
C4_Witness ==
    /\ p_built # <<>>
    /\ p_last.op = "propose_transaction"
    /\ BuiltInputs = <<InputA>>
    /\ p_request.payments = <<PayT1, PayT2>>
    /\ BalanceEstimate = 15000
    /\ Len(p_built[1].outputs) = 3
    /\ p_built[1].outputs[3].value = 99875000

\* C5: a PCZT produced by build(inputs, request, None) and not changed since
\* passes verify(PCZT, request, []), whether the request is transparent-only,
\* shielded-only or mixed and whether or not a change output was added.
C5_VerificationSymmetry ==
    (/\ p_last.op = "verify_before_signing"
     /\ p_last.data = <<>>
     /\ p_change = NoAddress
     /\ p_owned = p_built)
        => p_last.ok

\* a mixed request built with a change output, verified with no expected change
C5_Witness ==
    /\ p_last.op = "verify_before_signing"
    /\ p_last.data = <<>>
    /\ p_change = NoAddress
    /\ p_owned = p_built
    /\ p_request.payments = <<PayT1, PayU>>
    /\ Len(p_built[1].outputs) = 2
    /\ p_built[1].actions # <<>>
    /\ p_last.ok

HasValidSignature(pczt, i) ==
    /\ pczt.inputs[i].partial_signature # <<>>
    /\ pczt.inputs[i].partial_signature[1].wellformed
    /\ pczt.inputs[i].partial_signature[1].key = pczt.inputs[i].pubkey
    /\ pczt.inputs[i].partial_signature[1].msg = transparent_sighash(pczt, i - 1)

C10_EndToEnd ==
    /\ (/\ p_last.op = "finalize_and_extract"
        /\ p_last.arg[1].actions = <<>>
        /\ Len(p_last.arg[1].outputs) = Len(p_request.payments) + 1
        /\ {p_last.signed[j] : j \in 1..Len(p_last.signed)}
               = 0..(Len(p_last.arg[1].inputs) - 1))
           => /\ p_last.ok
              /\ p_last.bytes # <<>>
    /\ (/\ p_built # <<>>
        /\ BuiltInputs = <<InputA>>
        /\ p_request.payments = <<PayT1>>)
           => /\ InputA.amount = 100000000
              /\ PayT1.amount = 100000
              /\ estimated_fee(BuiltInputs, p_request) = 10000
              /\ Len(p_built[1].outputs) = 2
              /\ p_built[1].outputs[2].value = 99890000

\* two inputs signed second first, then finalized
C10_Witness ==
    /\ p_last.op = "finalize_and_extract"
    /\ p_last.arg[1].actions = <<>>
    /\ Len(p_last.arg[1].outputs) = Len(p_request.payments) + 1
    /\ p_last.signed = <<1, 0>>
    /\ p_last.ok
    /\ p_last.bytes # <<>>

(***************************************************************************)
(* Claims about the C boundary: ffi.rs.                                    *)
(***************************************************************************)
\* the boundary functions documented to consume their PCZT handles
ConsumingFunctions ==
    {"pczt_prove_transaction", "pczt_append_signature", "pczt_finalize_and_extract",
     "pczt_combine"}

\* C3: after a call of a consuming boundary function, whatever result code
\* it returned, every PCZT handle that was passed in has been consumed: none
\* of them is still a live object.
C3_ConsumedWhateverResult ==
    f_last.fn \in ConsumingFunctions =>
        \A i \in 1..Len(f_last.passed) :
            f_last.passed[i] # NULL => h_state[f_last.passed[i]] # "live"

(***************************************************************************)
(* Claims about the stages after the Builder (checked under SpecStages).   *)
(***************************************************************************)
\* C11: combine of an empty list fails with NoPczts, and combine of a list
\* of one PCZT returns a PCZT that serializes to the very bytes that one
\* PCZT serializes to, whatever signatures or proof it carries.
C11_CombineSingle ==
    (s_pc = "done" /\ s_last.op = "combine") =>
        /\ s_list = <<>> => (~s_last.ok /\ s_last.err = "NoPczts" /\ s_last.out = <<>>)
        /\ Len(s_list) = 1 => (s_last.ok /\ s_last.bytes = serialize_pczt(s_list[1]))

\* combine has returned a single PCZT that carries a signature and a proof
C11_Witness ==
    /\ s_pc = "done"
    /\ s_last.op = "combine"
    /\ Len(s_list) = 1
    /\ s_last.ok
    /\ s_list[1].proof
    /\ \E i \in 1..Len(s_list[1].inputs) : s_list[1].inputs[i].partial_signature # <<>>

\* what identifies a transparent input of a PCZT
InputIdentity(input) ==
    <<input.pubkey, input.txid, input.vout, input.value, input.script_pubkey>>

InputIdentities(pczt) == [i \in 1..Len(pczt.inputs) |-> InputIdentity(pczt.inputs[i])]

\* the PCZTs the stage that was called took
StageArguments == IF s_last.op = "combine" THEN s_list ELSE <<s_list[1]>>

\* C14: the PCZT that prove_transaction, append_signature or combine returns
\* has the transparent inputs of each PCZT passed in, in the same order, and
\* at least as many shielded actions; input i is the i-th input of the list
\* that was given to propose_transaction.
C14_InputsKept ==
    (s_pc = "done" /\ s_last.ok) =>
        \A k \in 1..Len(StageArguments) :
            LET arg == StageArguments[k]
                out == s_last.out[1]
            IN  /\ InputIdentities(out) = InputIdentities(arg)
                /\ Len(out.actions) >= Len(arg.actions)
                /\ arg # StageStranger =>
                      /\ Len(out.inputs) = Len(s_inputs)
                      /\ \A i \in 1..Len(s_inputs) :
                            InputIdentity(out.inputs[i]) = InputIdentity(pczt_input(s_inputs[i]))

\* combine has merged two PCZTs of two inputs with shielded actions, each
\* signed for a different input
C14_Witness ==
    /\ s_pc = "done"
    /\ s_last.op = "combine"
    /\ s_last.ok
    /\ Len(s_list) = 2
    /\ Len(s_inputs) = 2
    /\ s_list[1].actions # <<>>
    /\ s_list[1].inputs[1].partial_signature # <<>>
    /\ s_list[1].inputs[2].partial_signature = <<>>
    /\ s_list[2].inputs[2].partial_signature # <<>>
    /\ \A i \in 1..2 : s_last.out[1].inputs[i].partial_signature # <<>>

\* the inputs of a PCZT that carry a signature
StageSignedIn(pczt) ==
    {i \in 1..Len(pczt.inputs) : pczt.inputs[i].partial_signature # <<>>}

\* two copies of one PCZT, signed for different inputs
ParallelCopies ==
    /\ Len(s_list) = 2
    /\ s_list[1] # StageStranger
    /\ s_list[2] # StageStranger
    /\ s_list[1].proof = s_list[2].proof
    /\ StageSignedIn(s_list[1]) \cap StageSignedIn(s_list[2]) = {}

\* combine of such copies succeeds, and input i of the result carries the
\* signature of the copy that was signed for it
ParallelSignaturesMerged ==
    (s_pc = "done" /\ s_last.op = "combine" /\ ParallelCopies) =>
        /\ s_last.ok
        /\ \A i \in 1..Len(s_list[1].inputs) :
              s_last.out[1].inputs[i].partial_signature =
                  IF i \in StageSignedIn(s_list[1]) THEN s_list[1].inputs[i].partial_signature
                  ELSE s_list[2].inputs[i].partial_signature

\* combine of PCZTs of different transactions fails with DataMismatch
StrangersRefused ==
    (s_pc = "done" /\ s_last.op = "combine" /\ Len(s_list) = 2
        /\ (s_list[1] = StageStranger) # (s_list[2] = StageStranger)) =>
        (~s_last.ok /\ s_last.err = "DataMismatch")

\* every input was signed in one of the copies
EveryIndexCovered ==
    StageSignedIn(s_list[1]) \cup StageSignedIn(s_list[2]) = 1..Len(s_list[1].inputs)

\* C23 as stated: copies of one PCZT signed for different inputs combine
\* into a PCZT with the signature of every input signed in any copy, so
\* that finalize_and_extract succeeds when every input was covered; PCZTs
\* of different transactions fail to combine with DataMismatch.
C23_ParallelSigningFinalizes ==
    /\ ParallelSignaturesMerged
    /\ StrangersRefused
    /\ (s_pc = "done" /\ s_last.op = "combine" /\ ParallelCopies /\ EveryIndexCovered) =>
          (s_last.ok /\ finalize_and_extract(s_last.out[1]).ok)

\* C23, amended: as above, but finalize_and_extract of the combined PCZT
\* succeeds when every input was covered and the PCZT has no shielded
\* actions or carries their proof.
C23_ParallelSigning ==
    /\ ParallelSignaturesMerged
    /\ StrangersRefused
    /\ (s_pc = "done" /\ s_last.op = "combine" /\ ParallelCopies /\ EveryIndexCovered
           /\ (s_list[1].actions = <<>> \/ s_list[1].proof)) =>
          (s_last.ok /\ finalize_and_extract(s_last.out[1]).ok)

\* combine has merged two copies of a PCZT of two inputs, one signed for
\* the first input and one for the second
C23_Witness ==
    /\ s_pc = "done"
    /\ s_last.op = "combine"
    /\ s_last.ok
    /\ ParallelCopies
    /\ StageSignedIn(s_list[1]) = {1}
    /\ StageSignedIn(s_list[2]) = {2}
    /\ StageSignedIn(s_last.out[1]) = {1, 2}
    /\ finalize_and_extract(s_last.out[1]).ok

(***************************************************************************)
(* Claims about the last error (checked under SpecLastError).              *)
(***************************************************************************)
\* the result codes of the stages, and the FfiError variant behind each
\* (ffi.rs:15-29)
StageErrorOf(rc) ==
    CASE rc = "ErrorProposal" -> "Proposal"
      [] rc = "ErrorProver" -> "Prover"
      [] rc = "ErrorVerification" -> "Verification"
      [] rc = "ErrorSighash" -> "Sighash"
      [] rc = "ErrorSignature" -> "Signature"
      [] rc = "ErrorCombine" -> "Combine"
      [] rc = "ErrorFinalization" -> "Finalization"
      [] rc = "ErrorParse" -> "Parse"
      [] OTHER -> ""

\* a stage that has returned its error code has left the text of a failure
\* of that stage in the calling thread's slot
C12_Reported ==
    StageErrorOf(f_last.rc) # "" =>
        /\ last_error[f_last.thread] # <<>>
        /\ last_error[f_last.thread][1][1] = StageErrorOf(f_last.rc)
        /\ last_error[f_last.thread][1][2] # ""

\* what pczt_get_last_error returns for a buffer that is not null
C12_ReadBack ==
    (f_last.fn = "pczt_get_last_error" /\ f_last.rc # "ErrorNullPointer") =>
        LET slot == last_error[f_last.thread]
        IN  /\ (slot # <<>> /\ Len(to_string(slot[1])) + 1 > f_last.buffer_len) =>
                   (f_last.rc = "ErrorBufferTooSmall" /\ f_last.written = <<>>)
            /\ (slot # <<>> /\ Len(to_string(slot[1])) + 1 <= f_last.buffer_len) =>
                   (f_last.rc = "Success" /\ f_last.written = <<to_string(slot[1])>>)
            /\ slot = <<>> => (f_last.rc = "Success" /\ f_last.written = <<"">>)

\* a call leaves the slots of the other threads as they were
C12_OwnSlotOnly ==
    \A u \in Threads : u # f_last'.thread => last_error'[u] = last_error[u]

C29_WritesWithinBuffer ==
    /\ f_pc # "crashed"
    /\ (f_last.fn = "pczt_get_last_error" /\ f_last.written # <<>>) =>
           Len(f_last.written[1]) + 1 <= f_last.buffer_len

(***************************************************************************)
(* Claims about concurrent prove calls (checked under SpecProversFair).    *)
(***************************************************************************)
\* the proving key is built at most once, by the caller that found the cell
\* empty; a caller waits only while the key is being built or until it is
\* released; and every caller past get_or_init holds the one key of the cell
C13_BuiltOnce ==
    /\ o_builds <= 1
    /\ Cardinality({t \in Provers : o_pc[t] = "building"}) <= 1
    /\ (o_lock.state = "running") <=> (\E t \in Provers : o_pc[t] = "building")
    /\ \A t \in Provers :
          /\ o_pc[t] = "waiting" => (o_lock.state # "uninit" /\ o_key[t] = 0)
          /\ o_pc[t] \in {"proving", "returned_ok", "returned_err"} =>
                (o_lock.state = "complete" /\ o_key[t] = o_lock.key /\ o_key[t] = 1)

\* a call that is inside prove_transaction returns
C13_Returns ==
    \A t \in Provers :
        (o_pc[t] # "idle") ~> (o_pc[t] \in {"returned_ok", "returned_err", "returned_as_is"})

\* C13: under any interleaving of concurrent prove calls on PCZTs with
\* shielded actions the proving key is constructed at most once: the first
\* caller builds it, callers arriving meanwhile wait until it is ready,
\* every call uses that same key, and every call eventually returns.
C13_ProvingKeyOnce == []C13_BuiltOnce /\ C13_Returns

\* one caller is building the key, another waits for it, and a third has
\* not arrived yet
C13_Witness ==
    \E t, u \in Provers :
        /\ o_pc[t] = "building"
        /\ o_pc[u] = "waiting"
        /\ o_builds = 1

\* a call of prove_transaction on a PCZT without shielded actions has returned
\* to caller t
PassedThrough(t) ==
    /\ o_call[t].returned
    /\ o_call[t].arg[1].actions = <<>>

\* caller t enters prove_transaction with a PCZT without shielded actions
EntersWithoutActions(t) ==
    /\ o_pc[t] = "idle"
    /\ o_pc'[t] # "idle"
    /\ o_owned[t] # <<>>
    /\ o_owned[t][1].actions = <<>>

\* C25: prove on a PCZT with zero shielded actions is a passthrough: it takes
\* the caller's PCZT, returns a PCZT that serializes to the same bytes, and
\* neither builds nor takes the proving key.
C25_Passthrough ==
    /\ [](\A t \in Provers :
            PassedThrough(t) =>
                /\ o_owned[t] = <<>>
                /\ o_call[t].result.ok
                /\ serialize_pczt(o_call[t].result.pczt[1]) = serialize_pczt(o_call[t].arg[1])
                /\ o_key[t] = 0
                /\ o_pc[t] = "returned_as_is")
    /\ [][\A t \in Provers :
            EntersWithoutActions(t) =>
                /\ o_lock' = o_lock
                /\ o_builds' = o_builds
                /\ o_call'[t].returned]_vars

\* C25 witness: a caller got its PCZT without actions back while the proving
\* key had never been built, and another caller is building it
C25_Witness ==
    \E t, u \in Provers :
        /\ PassedThrough(t)
        /\ o_pc[t] = "returned_as_is"
        /\ o_pc[u] = "building"
        /\ o_lock.key = 0

(***************************************************************************)
(* Further claims about the Rust API (checked under Spec).                 *)
(***************************************************************************)
\* C15: propose_transaction with a request without payments fails with
\* InvalidRequest and returns no PCZT, whatever the inputs buffer (valid,
\* malformed or empty) and the change address are; no PCZT exists for such
\* a request.
C15_EmptyRequest ==
    (p_pc = "built" /\ p_request.payments = <<>>) =>
        /\ p_built = <<>>
        /\ p_owned = <<>>
        /\ p_last.op = "propose_transaction" =>
              (~p_last.ok /\ p_last.err = "InvalidRequest")

\* propose_transaction has refused a request without payments that came
\* with a malformed buffer and a change address that is no address
C15_Witness ==
    /\ p_pc = "built"
    /\ p_last.op = "propose_transaction"
    /\ p_request.payments = <<>>
    /\ p_inputs = ShortBuffer
    /\ p_change = AddrGarbage
    /\ ~p_last.ok

\* whether propose_transaction reaches the change output: lib.rs:231
NeedsChange ==
    sum_amounts(BuiltInputs) > total_amount(p_request) + estimated_fee(BuiltInputs, p_request)

\* whether the change address given to propose_transaction is a transparent one
ChangeIsTransparent == decode_address(p_change).kind = "p2pkh"

\* the change output of the PCZT as built, if it has one
BuiltChange ==
    IF p_built # <<>> /\
       Len(p_built[1].outputs) = Len(payment_outputs_of(p_request.payments)) + 1
    THEN <<p_built[1].outputs[Len(p_built[1].outputs)]>>
    ELSE <<>>

\* when a change output was added it pays the supplied change address, and
\* without one the address of the first input's public key
C16_ChangePaysAddress ==
    BuiltChange # <<>> =>
        BuiltChange[1].script_pubkey =
            IF p_change # NoAddress
            THEN p2pkh_script(decode_address(p_change).hash)
            ELSE p2pkh_script(hash160(BuiltInputs[1].pubkey))

VerifiedWithBuiltChange ==
    /\ p_last.op = "verify_before_signing"
    /\ p_owned = p_built
    /\ p_last.data # <<>>
    /\ p_last.data = change_of(p_built[1], p_request)

\* C28: for every PCZT produced by propose_transaction in which a change
\* output was added, verify_before_signing with that change output as the
\* expected change succeeds, also when the request has shielded payments.
C28_BuiltChangeVerifies ==
    VerifiedWithBuiltChange => p_last.ok

\* the payments of the request to an address that is not transparent, in order
ShieldedPayments ==
    SelectSeq(p_request.payments, LAMBDA p : ~is_transparent_address(p.address))

\* C26: for every payment to a shielded-capable address, a successful build
\* adds a shielded output that carries the payment's amount and, when the
\* payment has a memo, that memo: no successful build drops or replaces a
\* memo the request supplied.
C26_MemoCarried ==
    p_built # <<>> =>
        /\ Len(p_built[1].actions) >= Len(ShieldedPayments)
        /\ \A k \in 1..Len(ShieldedPayments) :
              LET payment == ShieldedPayments[k]
                  action == p_built[1].actions[k]
              IN  /\ ~action.dummy
                  /\ action.recipient = payment.address
                  /\ action.value = payment.amount
                  /\ payment.memo # NoMemo =>
                        /\ ~action.memo.no_memo
                        /\ action.memo.text = payment.memo

(***************************************************************************)
(* Claims about verify_before_signing (checked under SpecVerify).          *)
(***************************************************************************)
\* the fee of the PCZT handed to verify: what the inputs hold beyond the
\* transparent outputs
VerifyFee == sum_values(v_pczt.inputs) - sum_values(v_pczt.outputs)

VerifyRequested == total_amount(v_request)

\* C18: verify_before_signing checks that the fee is not too high: for a
\* PCZT without shielded actions it fails when the fee, the total value of
\* the transparent inputs less the total value of the outputs, exceeds 1%
\* of the requested total.
C18_HighFeeRefused ==
    (v_pc = "done" /\ v_pczt.actions = <<>> /\ VerifyFee > VerifyRequested \div 100) =>
        v_result # ""

\* requested_total <= total_transparent_output_value + 1% of requested_total;
\* with whole numbers on both sides, rounding the 1% down changes nothing
VerifyWithinAllowance ==
    VerifyRequested <= sum_values(v_pczt.outputs) + VerifyRequested \div 100

\* C19: on a PCZT without shielded actions whose other checks pass, verify
\* fails with InvalidFee when requested_total exceeds the total transparent
\* output value by more than 1% of requested_total, and it never returns
\* InvalidFee when that bound holds or when shielded actions exist.
C19_FeeBound ==
    (v_pc = "done") =>
        /\ ( /\ v_pczt.actions = <<>>
             /\ v_result \notin {"OutputMismatch", "ChangeMismatch"}
             /\ ~VerifyWithinAllowance ) => v_result = "InvalidFee"
        /\ v_result = "InvalidFee" => (v_pczt.actions = <<>> /\ ~VerifyWithinAllowance)

\* verify has returned InvalidFee for a request of two payments that one
\* output of the PCZT answers
C19_Witness ==
    /\ v_pc = "done"
    /\ v_result = "InvalidFee"
    /\ Len(v_request.payments) = 2
    /\ Len(v_pczt.outputs) = 2

\* the transparent outputs of the PCZT that match an entry of expected_change
\* in script and value
VerifyChangeMatches ==
    {i \in 1..Len(v_pczt.outputs) :
        \E e \in 1..Len(v_change) :
            /\ v_pczt.outputs[i].script_pubkey = v_change[e].script_pubkey
            /\ v_pczt.outputs[i].value = v_change[e].value}

VerifyCountsAgree ==
    Len(v_pczt.outputs) + Len(v_pczt.actions) = Len(v_request.payments) + Len(v_change)

\* C20 as stated: whenever the number of transparent outputs that match an
\* entry of expected_change differs from the length of expected_change,
\* verify fails with ChangeMismatch.
C20_AlwaysChangeMismatch ==
    (v_pc = "done" /\ Cardinality(VerifyChangeMatches) # Len(v_change)) =>
        v_result = "ChangeMismatch"

\* C20, amended: whenever the number of transparent outputs that match an
\* entry of expected_change differs from the length of expected_change,
\* verify fails: with OutputMismatch when the PCZT's outputs and actions do
\* not number payments plus expected change, which is tested first, and
\* with ChangeMismatch otherwise; it returns ChangeMismatch in no other case.
C20_MismatchFails ==
    (v_pc = "done") =>
        /\ Cardinality(VerifyChangeMatches) # Len(v_change) =>
              v_result = IF VerifyCountsAgree THEN "ChangeMismatch" ELSE "OutputMismatch"
        /\ v_result = "ChangeMismatch" =>
              (Cardinality(VerifyChangeMatches) # Len(v_change) /\ VerifyCountsAgree)

\* verify has returned ChangeMismatch: the PCZT has as many outputs as
\* payments and expected change together, but not the change expected
C20_Witness ==
    /\ v_pc = "done"
    /\ v_result = "ChangeMismatch"
    /\ v_change = StrangerChange
    /\ Len(v_pczt.outputs) = 2
    /\ Len(v_request.payments) = 1

\* the transparent outputs of the PCZT that are not expected change
VerifyNonChangeOutputs ==
    {i \in 1..Len(v_pczt.outputs) : i \notin VerifyChangeMatches}

\* C21: verify succeeds only if the non-change transparent outputs and the
\* shielded actions together number len(payments) when expected_change is
\* not empty, and at least len(payments) when it is empty.
C21_OutputCount ==
    (v_pc = "done" /\ v_result = "") =>
        LET counted == Cardinality(VerifyNonChangeOutputs) + Len(v_pczt.actions)
        IN  IF v_change # <<>>
            THEN counted = Len(v_request.payments)
            ELSE counted >= Len(v_request.payments)

\* verify has accepted a PCZT of a payment and its change, with that change
\* expected
C21_Witness ==
    /\ v_pc = "done"
    /\ v_result = ""
    /\ Len(v_change) = 1
    /\ Len(v_pczt.outputs) = 2
    /\ Cardinality(VerifyChangeMatches) = 1

\* a transparent payment of the request that no non-change transparent
\* output of the PCZT answers with the same script and amount
VerifyUnansweredPayment ==
    \E k \in 1..Len(v_request.payments) :
        LET p == v_request.payments[k]
        IN  /\ decode_address(p.address).kind = "p2pkh"
            /\ ~\E i \in VerifyNonChangeOutputs :
                   /\ v_pczt.outputs[i].script_pubkey = p2pkh_script(decode_address(p.address).hash)
                   /\ v_pczt.outputs[i].value = p.amount

\* the request has a shielded payment and the PCZT no shielded action
VerifyShieldedUnanswered ==
    /\ v_pczt.actions = <<>>
    /\ \E k \in 1..Len(v_request.payments) :
          decode_address(v_request.payments[k].address).kind = "unified"

\* C22 as stated: verify fails with OutputMismatch whenever a transparent
\* payment has no non-change transparent output of the same script and
\* amount, and whenever the request has a shielded payment while the PCZT
\* has no shielded action.
C22_AlwaysOutputMismatch ==
    (v_pc = "done" /\ (VerifyUnansweredPayment \/ VerifyShieldedUnanswered)) =>
        v_result = "OutputMismatch"

\* C22, amended: in both cases verify fails, with OutputMismatch unless the
\* expected change was not found among the outputs, which is tested before
\* the payments and fails with ChangeMismatch.
C22_UnansweredPaymentFails ==
    (v_pc = "done" /\ (VerifyUnansweredPayment \/ VerifyShieldedUnanswered)) =>
        v_result = IF /\ v_change # <<>>
                      /\ VerifyCountsAgree
                      /\ Cardinality(VerifyChangeMatches) # Len(v_change)
                   THEN "ChangeMismatch"
                   ELSE "OutputMismatch"

\* verify has returned OutputMismatch for a PCZT with as many outputs as
\* payments, one of which pays the right address the wrong amount
C22_Witness ==
    /\ v_pc = "done"
    /\ v_result = "OutputMismatch"
    /\ v_change = <<>>
    /\ v_pczt.actions = <<>>
    /\ v_request.payments = <<PayT1, PayT2>>
    /\ Len(v_pczt.outputs) = 2
    /\ v_pczt.outputs[2] = NearlyPayT1
    /\ VerifyUnansweredPayment

\* the transparent payments of the request, by position
VerifyTransparentPayments ==
    {k \in 1..Len(v_request.payments) :
        decode_address(v_request.payments[k].address).kind = "p2pkh"}

\* output i of the PCZT pays payment k: same script, same amount
VerifyPays(i, k) ==
    LET p == v_request.payments[k]
    IN  /\ v_pczt.outputs[i].script_pubkey = p2pkh_script(decode_address(p.address).hash)
        /\ v_pczt.outputs[i].value = p.amount

ConsumingCalls == {"prove_transaction", "append_signature", "finalize_and_extract"}

\* no native handle was received more than once by a consuming native call
\* or pczt_free; a wrapper holds NULL or a live handle no such call has
\* received, and no two wrappers hold the same handle; after a call that
\* passed the wrapper's handle to a consuming native function the wrapper
\* holds NULL
HandlePassedOnce ==
    /\ \A h \in Wrappers : n_taken[h] <= 1
    /\ \A w \in Wrappers :
          (w_state[w] = "alive" /\ w_handle[w] # NULL) =>
              /\ n_state[w_handle[w]] = "live"
              /\ n_taken[w_handle[w]] = 0
              /\ \A x \in Wrappers : (x # w /\ w_state[x] = "alive") => w_handle[x] # w_handle[w]
    /\ (w_last.fn \in ConsumingCalls /\ w_last.passed # <<>>) =>
           w_handle[w_last.wrapper] = NULL

\* free and drop of a wrapper that holds NULL call no native function and
\* change nothing of the native library
FreeOfNullDoesNothing ==
    \A w \in Wrappers :
        (w_handle[w] = NULL /\ w_last'.fn \in {"free", "drop"} /\ w_last'.wrapper = w) =>
            /\ w_last'.passed = <<>>
            /\ n_state' = n_state
            /\ n_taken' = n_taken

\* C30 as stated: a native handle is passed to a consuming native call or
\* to pczt_free at most once; once a consuming call has taken the handle the
\* wrapper holds null, a later stage call on that wrapper reaches the native
\* layer with a null handle and returns an error, and free/drop does nothing.
C30_LaterCallReachesNative ==
    /\ [](HandlePassedOnce
           /\ ((w_last.fn \in ConsumingCalls /\ w_last.held = NULL) =>
                  (~w_last.ok /\ w_last.passed = <<NULL>>)))
    /\ [][FreeOfNullDoesNothing]_vars

\* C30, amended: as above, but a later append_signature whose signature is
\* not 64 bytes long returns its error before the native layer is reached;
\* every other later stage call reaches it with a null handle.
C30_HandleOnce ==
    /\ [](HandlePassedOnce
           /\ ((w_last.fn \in ConsumingCalls /\ w_last.held = NULL) =>
                  /\ ~w_last.ok
                  /\ IF w_last.passed = <<>>
                     THEN w_last.fn = "append_signature"
                     ELSE w_last.passed = <<NULL>>))
    /\ [][FreeOfNullDoesNothing]_vars

\* C30 witness: prove_transaction was called on the one wrapper of the script
\* after its handle had been taken and received by the native library
C30_Witness ==
    /\ w_last.fn = "prove_transaction"
    /\ w_last.held = NULL
    /\ ~w_last.ok
    /\ w_state = [w \in Wrappers |-> IF w = 1 THEN "alive" ELSE "none"]
    /\ n_taken[1] = 1

====
